---- MODULE Spec2Model ----
(***************************************************************************)
(* Verification model of datacave: the LSM storage engine                  *)
(* (crates/datacave-lsm), the MVCC clock (crates/datacave-core), the SQL   *)
(* executor (crates/datacave-sql) and the session / shard router           *)
(* (crates/datacave-server).                                               *)
(*                                                                         *)
(* Bytes are naturals 0..255, byte strings are sequences of bytes.         *)
(* Option<T> is a record: None == [some |-> FALSE],                        *)
(* Some(x) == [some |-> TRUE, v |-> x].                                    *)
(***************************************************************************)
EXTENDS Integers, Sequences, FiniteSets, TLC

\* ------------------------------------------------------------------ bounds
\* Largest MVCC version handed out in the engine specification.
MaxVersion == 3
\* Largest value of the millisecond clock read by chrono_suffix.
MaxClock == 2

\* Shards and replicas per shard of the router
MaxShards == 2

MaxReplicas == 2

\* Rows one session inserts or buffers, and statements it buffers
MaxRows == 2

MaxBuffer == 2

\* Longest table name enumerated, and most shards, when routing
MaxNameLen == 3

MaxRouteShards == 4

\* ------------------------------------------------------------ byte helpers
\* let r = v; F(r): v is evaluated once
Bind(v, F(_)) == CHOOSE x \in { F(r) : r \in { v } } : TRUE

None == [some |-> FALSE]

Some(x) == [some |-> TRUE, v |-> x]

\* u32::to_le_bytes
U32LE(n) ==
  << n % 256, (n \div 256) % 256, (n \div 65536) % 256, (n \div 16777216) % 256 >>

\* u32::from_le_bytes of the four bytes of data starting at offset off (0-based)
FromU32LE(data, off) ==
  data[off + 1] + 256 * data[off + 2] + 65536 * data[off + 3]
    + 16777216 * data[off + 4]

\* u64::to_be_bytes; versions of the model stay below 2^32, the four high
\* bytes are zero.
U64BE(n) ==
  << 0, 0, 0, 0,
     (n \div 16777216) % 256, (n \div 65536) % 256, (n \div 256) % 256, n % 256 >>

\* u64::from_be_bytes of an 8-byte string (high four bytes are zero here)
FromU64BE(b) ==
  16777216 * b[5] + 65536 * b[6] + 256 * b[7] + b[8]

\* data[from .. to) with 0-based offsets, as the slice data[from..to]
Slice(data, from, to) == SubSeq(data, from + 1, to)

\* <[u8]>::starts_with
StartsWith(s, prefix) ==
  /\ Len(s) >= Len(prefix)
  /\ SubSeq(s, 1, Len(prefix)) = prefix

\* Ord for Vec<u8>: lexicographic on raw bytes, a proper prefix sorts first
RECURSIVE LexLess(_, _)
LexLess(a, b) ==
  IF b = << >> THEN FALSE
  ELSE IF a = << >> THEN TRUE
  ELSE IF Head(a) # Head(b) THEN Head(a) < Head(b)
  ELSE LexLess(Tail(a), Tail(b))

LexLeq(a, b) == a = b \/ LexLess(a, b)

\* The least / greatest byte string of a non-empty finite set
MinKey(S) == CHOOSE k \in S : \A o \in S : LexLeq(k, o)

MaxKey(S) == CHOOSE k \in S : \A o \in S : LexLeq(o, k)

\* The keys of S in ascending order (BTreeMap iteration order)
RECURSIVE SortedKeys(_)
SortedKeys(S) ==
  IF S = {} THEN << >>
  ELSE LET m == MinKey(S) IN << m >> \o SortedKeys(S \ {m})

\* ------------------------------------------------- engine.rs value coding
\* encode_value
encode_value(value) ==
  IF value.some THEN << 1 >> \o value.v ELSE << 0 >>

\* decode_value
decode_value(value) ==
  IF value = << >> THEN None
  ELSE IF value[1] = 0 THEN None
  ELSE IF value[1] = 1 THEN Some(Tail(value))
  ELSE None

\* encode_versioned_key
encode_versioned_key(key, version) == key \o U64BE(version)

\* is_key_match
is_key_match(versioned_key, key, snapshot) ==
  IF Len(versioned_key) < Len(key) + 8 THEN FALSE
  ELSE LET n == Len(versioned_key)
           prefix == SubSeq(versioned_key, 1, n - 8)
           version_bytes == SubSeq(versioned_key, n - 7, n)
       IN IF prefix # key THEN FALSE
          ELSE FromU64BE(version_bytes) <= snapshot

\* ------------------------------------------------------------ memtable.rs
\* MemTable::new
MemTableNew == [entries |-> << >>, bytes |-> 0]

\* MemTable::put.  entries is a function from key to value; the byte count
\* is the code's: minus the replaced value, plus the size of the LAST entry
\* of the map.
MemTablePut(mt, key, value) ==
  LET had == key \in DOMAIN mt.entries
      b1 == IF had
            THEN (IF mt.bytes >= Len(mt.entries[key])
                  THEN mt.bytes - Len(mt.entries[key]) ELSE 0)
            ELSE mt.bytes
      ents == [k \in (DOMAIN mt.entries) \cup {key} |->
                 IF k = key THEN value ELSE mt.entries[k]]
      last == MaxKey(DOMAIN ents)
  IN [entries |-> ents, bytes |-> b1 + Len(last) + Len(ents[last])]

\* MemTable::clear
MemTableClear == MemTableNew

\* mem_get_latest: last entry of range(..= key ++ snapshot) that starts
\* with key
mem_get_latest(mt, key, snapshot) ==
  LET upper == key \o U64BE(snapshot)
      cand == {k \in DOMAIN mt.entries : LexLeq(k, upper) /\ StartsWith(k, key)}
  IN IF cand = {} THEN None ELSE Some(mt.entries[MaxKey(cand)])

\* ------------------------------------------------------------- sstable.rs
\* SSTable::write_with without encryptor: the file bytes of a list of entries
RECURSIVE SstWrite(_)
SstWrite(entries) ==
  IF entries = << >> THEN << >>
  ELSE LET e == Head(entries)
       IN U32LE(Len(e.key)) \o e.key \o U32LE(Len(e.value)) \o e.value
            \o SstWrite(Tail(entries))

\* SSTable::load_with without encryptor: decode from offset, stop at a
\* truncated tail
RECURSIVE SstLoadFrom(_, _)
SstLoadFrom(data, offset) ==
  IF offset + 4 > Len(data) THEN << >>
  ELSE LET key_len == FromU32LE(data, offset)
           o1 == offset + 4
       IN IF o1 + key_len > Len(data) THEN << >>
          ELSE LET o2 == o1 + key_len
               IN IF o2 + 4 > Len(data) THEN << >>
                  ELSE LET value_len == FromU32LE(data, o2)
                           o3 == o2 + 4
                       IN IF o3 + value_len > Len(data) THEN << >>
                          ELSE << [key |-> Slice(data, o1, o2),
                                   value |-> Slice(data, o3, o3 + value_len)] >>
                                 \o SstLoadFrom(data, o3 + value_len)

SstLoad(data) == SstLoadFrom(data, 0)

\* ----------------------------------------------------------------- wal.rs
WalOpPut == 1

WalOpDelete == 2

\* Wal::append without encryptor: the bytes appended for one record
WalRecord(op, key, value) ==
  U32LE(1 + 4 + Len(key) + 4 + Len(value)) \o << op >> \o U32LE(Len(key)) \o key
    \o U32LE(Len(value)) \o value

WalAppend(file, op, key, value) == file \o WalRecord(op, key, value)

\* Wal::reset
WalReset == << >>

\* Wal::replay: the records of a file, or "error" where a read past the end
\* of the file makes replay return Err (read_u8 / read_u32_le / read_exact
\* with `?`).  A short length prefix or a zero length ends the loop.
RECURSIVE WalReplayFrom(_, _, _)
WalReplayFrom(data, offset, acc) ==
  IF offset + 4 > Len(data) THEN [ok |-> TRUE, entries |-> acc]
  ELSE IF FromU32LE(data, offset) = 0 THEN [ok |-> TRUE, entries |-> acc]
  ELSE LET o1 == offset + 4
       IN IF o1 + 1 > Len(data) THEN [ok |-> FALSE, entries |-> acc]
          ELSE LET opb == data[o1 + 1]
                   op == IF opb = 2 THEN WalOpDelete ELSE WalOpPut
                   o2 == o1 + 1
               IN IF o2 + 4 > Len(data) THEN [ok |-> FALSE, entries |-> acc]
                  ELSE LET key_len == FromU32LE(data, o2)
                           o3 == o2 + 4
                       IN IF o3 + key_len > Len(data)
                          THEN [ok |-> FALSE, entries |-> acc]
                          ELSE LET o4 == o3 + key_len
                               IN IF o4 + 4 > Len(data)
                                  THEN [ok |-> FALSE, entries |-> acc]
                                  ELSE LET value_len == FromU32LE(data, o4)
                                           o5 == o4 + 4
                                       IN IF o5 + value_len > Len(data)
                                          THEN [ok |-> FALSE, entries |-> acc]
                                          ELSE WalReplayFrom(data, o5 + value_len,
                                                 Append(acc,
                                                   [op |-> op,
                                                    key |-> Slice(data, o3, o4),
                                                    value |-> Slice(data, o5, o5 + value_len)]))

WalReplay(data) == WalReplayFrom(data, 0, << >>)

\* -------------------------------------------------------------- engine.rs
\* The engine of one data directory:
\*   memtable  : MemTable            wal      : bytes of wal.log
\*   sstables  : Seq of paths (the in-memory run list, oldest first)
\*   files     : path -> bytes of the sst-*.db files of data_dir
\*   wal_enabled, memtable_max_bytes : LsmOptions (encryption_key is None)
\* A path is [compacted, ts]: "sst-<ts>.db" or "sst-compacted-<ts>.db".

\* chrono_suffix: the millisecond clock at the call
chrono_suffix(now) == now

\* String order of two paths of one directory: after "sst-" a digit sorts
\* before 'c'; two suffixes of equal length order as numbers.
PathLess(a, b) ==
  \/ ~a.compacted /\ b.compacted
  \/ a.compacted = b.compacted /\ a.ts < b.ts

\* sstables.sort_by(|a, b| a.path.cmp(&b.path)) over the directory listing
RECURSIVE SortPaths(_)
SortPaths(S) ==
  IF S = {} THEN << >>
  ELSE LET m == CHOOSE p \in S : \A o \in S : o = p \/ PathLess(p, o)
       IN << m >> \o SortPaths(S \ {m})

\* File::create + write_all: create or truncate-and-replace
WriteFile(files, path, bytes) ==
  [p \in (DOMAIN files) \cup {path} |-> IF p = path THEN bytes ELSE files[p]]

\* mem.iter() collected into Vec<SstEntry>, ascending key order
MemEntries(mt) ==
  LET ks == SortedKeys(DOMAIN mt.entries)
  IN [i \in 1..Len(ks) |-> [key |-> ks[i], value |-> mt.entries[ks[i]]]]

\* flush as it would be without the WAL reset of engine.rs:141-143
EngineFlush_KeepsWal(e, now) ==
  IF DOMAIN e.memtable.entries = {} THEN e
  ELSE LET sst_path == [compacted |-> FALSE, ts |-> chrono_suffix(now)]
       IN [e EXCEPT !.files = WriteFile(e.files, sst_path, SstWrite(MemEntries(e.memtable))),
                    !.sstables = Append(e.sstables, sst_path),
                    !.memtable = MemTableClear]

\* LsmEngine::flush
EngineFlush(e, now) ==
  IF DOMAIN e.memtable.entries = {} THEN e
  ELSE LET sst_path == [compacted |-> FALSE, ts |-> chrono_suffix(now)]
       IN [e EXCEPT !.files = WriteFile(e.files, sst_path, SstWrite(MemEntries(e.memtable))),
                    !.sstables = Append(e.sstables, sst_path),
                    !.memtable = MemTableClear,
                    !.wal = IF e.wal_enabled THEN WalReset ELSE e.wal]

\* put as it would be if it flushed only above the limit
EnginePut_AboveLimit(e, key, value, version, now) ==
  LET encoded_key == encode_versioned_key(key, version)
      encoded_value == encode_value(Some(value))
      e1 == [e EXCEPT !.wal = IF e.wal_enabled
                              THEN WalAppend(e.wal, WalOpPut, encoded_key, encoded_value)
                              ELSE e.wal,
                      !.memtable = MemTablePut(e.memtable, encoded_key, encoded_value)]
  IN IF e1.memtable.bytes > e1.memtable_max_bytes THEN EngineFlush(e1, now) ELSE e1

\* LsmEngine::put
EnginePut(e, key, value, version, now) ==
  LET encoded_key == encode_versioned_key(key, version)
      encoded_value == encode_value(Some(value))
      e1 == [e EXCEPT !.wal = IF e.wal_enabled
                              THEN WalAppend(e.wal, WalOpPut, encoded_key, encoded_value)
                              ELSE e.wal,
                      !.memtable = MemTablePut(e.memtable, encoded_key, encoded_value)]
  IN IF e1.memtable.bytes >= e1.memtable_max_bytes THEN EngineFlush(e1, now) ELSE e1

\* LsmEngine::delete
EngineDelete(e, key, version) ==
  LET encoded_key == encode_versioned_key(key, version)
      encoded_value == encode_value(None)
  IN [e EXCEPT !.wal = IF e.wal_enabled
                       THEN WalAppend(e.wal, WalOpDelete, encoded_key, encoded_value)
                       ELSE e.wal,
               !.memtable = MemTablePut(e.memtable, encoded_key, encoded_value)]

\* The first entry of one loaded run, in file order, that is_key_match
RECURSIVE FirstMatch(_, _, _)
FirstMatch(entries, key, snapshot) ==
  IF entries = << >> THEN None
  ELSE IF is_key_match(Head(entries).key, key, snapshot) THEN Some(Head(entries).value)
  ELSE FirstMatch(Tail(entries), key, snapshot)

\* tables.iter().rev(): runs i, i-1, .., 1
RECURSIVE ScanTables(_, _, _, _)
ScanTables(e, i, key, snapshot) ==
  IF i = 0 THEN None
  ELSE LET m == FirstMatch(SstLoad(e.files[e.sstables[i]]), key, snapshot)
       IN IF m.some THEN decode_value(m.v)
          ELSE ScanTables(e, i - 1, key, snapshot)

\* LsmEngine::get
EngineGet(e, key, snapshot) ==
  LET m == mem_get_latest(e.memtable, key, snapshot)
  IN IF m.some THEN decode_value(m.v)
     ELSE ScanTables(e, Len(e.sstables), key, snapshot)

\* compaction.rs compact_tables: merged.insert over the runs, oldest first
RECURSIVE MergeEntries(_, _)
MergeEntries(merged, entries) ==
  IF entries = << >> THEN merged
  ELSE LET h == Head(entries)
       IN MergeEntries([k \in (DOMAIN merged) \cup {h.key} |->
                          IF k = h.key THEN h.value ELSE merged[k]],
                       Tail(entries))

RECURSIVE MergeTables(_, _, _)
MergeTables(e, i, merged) ==
  IF i > Len(e.sstables) THEN merged
  ELSE MergeTables(e, i + 1,
         MergeEntries(merged, SstLoad(e.files[e.sstables[i]])))

\* compact_tables as it would be if the oldest run holding a key gave
\* its value
compact_tables_OldestWins(e) ==
  LET merged == MergeTables(e, 1, << >>)
      ks == SortedKeys(DOMAIN merged)
      Holds(i, k) == \E j \in 1..Len(SstLoad(e.files[e.sstables[i]])) :
                       SstLoad(e.files[e.sstables[i]])[j].key = k
      Oldest(k) == CHOOSE i \in 1..Len(e.sstables) :
                     Holds(i, k) /\ \A y \in 1..(i - 1) : ~Holds(y, k)
      ValueIn(i, k) == LET es == SstLoad(e.files[e.sstables[i]])
                       IN es[CHOOSE j \in 1..Len(es) : es[j].key = k].value
  IN SstWrite([i \in 1..Len(ks) |-> [key |-> ks[i], value |-> ValueIn(Oldest(ks[i]), ks[i])]])

compact_tables(e) ==
  LET merged == MergeTables(e, 1, << >>)
      ks == SortedKeys(DOMAIN merged)
  IN SstWrite([i \in 1..Len(ks) |-> [key |-> ks[i], value |-> merged[ks[i]]]])

\* LsmEngine::compact
EngineCompact(e, now) ==
  IF Len(e.sstables) < 2 THEN e
  ELSE LET output == [compacted |-> TRUE, ts |-> chrono_suffix(now)]
       IN [e EXCEPT !.files = WriteFile(e.files, output, compact_tables(e)),
                    !.sstables = << output >>]

\* The memtable rebuilt by open(): every replayed record is put back
RECURSIVE ReplayInto(_, _)
ReplayInto(mt, entries) ==
  IF entries = << >> THEN mt
  ELSE ReplayInto(MemTablePut(mt, Head(entries).key, Head(entries).value),
                  Tail(entries))

\* LsmEngine::open on the directory and WAL file left by e
EngineOpen(e) ==
  [e EXCEPT !.memtable = IF e.wal_enabled
                         THEN ReplayInto(MemTableNew, WalReplay(e.wal).entries)
                         ELSE MemTableNew,
            !.sstables = SortPaths(DOMAIN e.files)]

\* LsmEngine::open on an empty directory
EngineNew(wal_enabled, memtable_max_bytes) ==
  [memtable |-> MemTableNew, wal |-> << >>, sstables |-> << >>, files |-> << >>,
   wal_enabled |-> wal_enabled, memtable_max_bytes |-> memtable_max_bytes]

\* ------------------------------------------------------------- mvcc.rs
\* MvccManager::new: the clock starts at 1
MvccNew == 1

\* next_version as it would be if the clock were read without being advanced
next_version_NoIncrement(clock) == [version |-> clock, clock |-> clock]

\* MvccManager::next_version: fetch_add returns the value before the increment
next_version(clock) == [version |-> clock, clock |-> clock + 1]

\* MvccManager::snapshot
snapshot(clock) == clock

\* ---------------------------------------------------------- SQL statements
\* A parsed sqlparser Statement, by the fields the server looks at:
\*   kind  : "StartTransaction" | "Commit" | "Rollback" | "CreateTable"
\*           | "Insert" | "Update" | "Delete" | "Query"
\*   table : Option of the table name bytes (None for SELECT 1 and for
\*           transaction control)
\*   rows  : the VALUES rows of an INSERT, each a sequence of Int64 values
StmtBegin == [kind |-> "StartTransaction", table |-> None, rows |-> << >>]

StmtCommit == [kind |-> "Commit", table |-> None, rows |-> << >>]

StmtRollback == [kind |-> "Rollback", table |-> None, rows |-> << >>]

StmtCreate(t) == [kind |-> "CreateTable", table |-> Some(t), rows |-> << >>]

StmtInsert(t, rows) == [kind |-> "Insert", table |-> Some(t), rows |-> rows]

StmtDelete(t) == [kind |-> "Delete", table |-> Some(t), rows |-> << >>]

\* UPDATE t SET id = v (no WHERE clause)
StmtUpdate(t, v) == [kind |-> "Update", table |-> Some(t), rows |-> << << v >> >>]

StmtSelect(t) == [kind |-> "Query", table |-> Some(t), rows |-> << >>]

\* SELECT 1: a query without FROM
StmtSelect1 == [kind |-> "Query", table |-> None, rows |-> << >>]

\* ---------------------------------------------------------- coordinator.rs
\* the hash step as it would be with a multiplier of 33
HashStep_Times33(h, b) ==
  LET t0 == h[1] * 33 + b
      t1 == h[2] * 33 + (t0 \div 65536)
      t2 == h[3] * 33 + (t1 \div 65536)
      t3 == h[4] * 33 + (t2 \div 65536)
  IN << t0 % 65536, t1 % 65536, t2 % 65536, t3 % 65536 >>

\* usize arithmetic of hash_table on a 64-bit target: a hash is four 16-bit
\* limbs, least significant first; wrapping_mul(31).wrapping_add(b) drops the
\* carry out of the top limb.
HashStep(h, b) ==
  LET t0 == h[1] * 31 + b
      t1 == h[2] * 31 + (t0 \div 65536)
      t2 == h[3] * 31 + (t1 \div 65536)
      t3 == h[4] * 31 + (t2 \div 65536)
  IN << t0 % 65536, t1 % 65536, t2 % 65536, t3 % 65536 >>

RECURSIVE HashFrom(_, _)
HashFrom(h, name) ==
  IF name = << >> THEN h ELSE HashFrom(HashStep(h, Head(name)), Tail(name))

\* hash_table
hash_table(name) == HashFrom(<< 0, 0, 0, 0 >>, name)

\* hash % shard_count on the limbs
HashMod(h, n) ==
  LET r3 == h[4] % n
      r2 == (r3 * 65536 + h[3]) % n
      r1 == (r2 * 65536 + h[2]) % n
  IN (r1 * 65536 + h[1]) % n

\* is_read_only
is_read_only(stmt) == stmt.kind = "Query"

\* table_name
table_name(stmt) ==
  IF stmt.kind \in {"Insert", "Update", "Delete", "CreateTable", "Query"} THEN stmt.table ELSE None

\* Coordinator::route_plan: the ShardPlans of one statement, in order
route_plan(stmt, shard_count) ==
  IF is_read_only(stmt)
  THEN [i \in 1..shard_count |-> [shard_id |-> i - 1, stmt |-> stmt]]
  ELSE LET name == table_name(stmt)
           shard_id == IF name.some THEN HashMod(hash_table(name.v), shard_count) ELSE 0
       IN << [shard_id |-> shard_id, stmt |-> stmt] >>

\* SqlResult
SqlResult(columns, rows, rows_affected) ==
  [columns |-> columns, rows |-> rows, rows_affected |-> rows_affected]

RECURSIVE ConcatRows(_)
ConcatRows(results) ==
  IF results = << >> THEN << >> ELSE Head(results).rows \o ConcatRows(Tail(results))

RECURSIVE SumAffected(_)
SumAffected(results) ==
  IF results = << >> THEN 0 ELSE Head(results).rows_affected + SumAffected(Tail(results))

\* Coordinator::aggregate
aggregate(stmt, results) ==
  IF results = << >> THEN SqlResult(<< >>, << >>, 0)
  ELSE IF is_read_only(stmt)
  THEN SqlResult(results[1].columns, ConcatRows(results), SumAffected(results))
  ELSE SqlResult(<< >>, << >>, SumAffected(results))

\* ------------------------------------------------------------ executor.rs
\* The columns of every table of the model: CREATE TABLE <t> (id INT)
TableColumns == << [name |-> "id", data_type |-> "INT"] >>

\* bincode::serialize(&DataRow): the value count, then each Int64 as a
\* variant tag and the number
RECURSIVE SerializeValues(_)
SerializeValues(values) ==
  IF values = << >> THEN << >>
  ELSE << 1, Head(values) >> \o SerializeValues(Tail(values))

SerializeRow(values) == << Len(values) >> \o SerializeValues(values)

\* bincode::deserialize::<DataRow>
DeserializeRow(bytes) ==
  [i \in 1..bytes[1] |-> bytes[2 * i + 1]]

\* tenant_key: "{tenant}.{table}" or the table
tenant_key(table, tenant_id) ==
  IF tenant_id.some THEN tenant_id.v \o << 46 >> \o table ELSE table

\* encode_row_key: [tenant '|'] table '|' row_id as 8 big-endian bytes
encode_row_key(table, row_id, tenant_id) ==
  (IF tenant_id.some THEN tenant_id.v \o << 124 >> ELSE << >>)
    \o table \o << 124 >> \o U64BE(row_id)

\* align_columns with an empty insert column list
align_columns(values) == values

\* One shard replica (Shard::new): catalog, row-id counters, MVCC clock and
\* storage engine
ShardNew(wal_enabled, memtable_max_bytes) ==
  [catalog |-> << >>, table_seq |-> << >>, clock |-> MvccNew,
   storage |-> EngineNew(wal_enabled, memtable_max_bytes)]

\* current_row_count
current_row_count(sh, table, tenant_id) ==
  LET key == tenant_key(table, tenant_id)
  IN IF key \in DOMAIN sh.table_seq THEN sh.table_seq[key] ELSE 0

\* reserve_row_id: the shard with the counter of (tenant, table) incremented
reserve_row_id(sh, table, tenant_id) ==
  LET key == tenant_key(table, tenant_id)
      current == current_row_count(sh, table, tenant_id)
  IN [sh EXCEPT !.table_seq =
        [k \in (DOMAIN sh.table_seq) \cup {key} |->
           IF k = key THEN current + 1 ELSE sh.table_seq[k]]]

ExecOk(sh, result) == [ok |-> TRUE, sh |-> sh, result |-> result, err |-> ""]

ExecErr(sh, err) == [ok |-> FALSE, sh |-> sh, result |-> SqlResult(<< >>, << >>, 0), err |-> err]

\* Catalog::create_table through SqlExecutor::exec_create_table
exec_create_table(sh, table) ==
  IF table \in DOMAIN sh.catalog
  THEN ExecErr(sh, "table already exists")
  ELSE ExecOk([sh EXCEPT !.catalog =
                 [t \in (DOMAIN sh.catalog) \cup {table} |->
                    IF t = table THEN TableColumns ELSE sh.catalog[t]]],
              SqlResult(<< >>, << >>, 0))

\* the loop of exec_insert over plan.values
RECURSIVE InsertRows(_, _, _, _, _)
InsertRows(sh, table, rows, tenant_id, now) ==
  IF rows = << >> THEN sh
  ELSE LET values == align_columns(Head(rows))
           row_id == current_row_count(sh, table, tenant_id)
           key == encode_row_key(table, row_id, tenant_id)
       IN Bind(reserve_row_id(sh, table, tenant_id), LAMBDA sh1 :
            Bind(next_version(sh1.clock), LAMBDA nv :
              Bind(EnginePut(sh1.storage, key, SerializeRow(values), nv.version, now),
                   LAMBDA storage :
                InsertRows([sh1 EXCEPT !.clock = nv.clock, !.storage = storage],
                           table, Tail(rows), tenant_id, now))))

\* SqlExecutor::exec_insert
exec_insert(sh, table, rows, tenant_id, now) ==
  IF table \notin DOMAIN sh.catalog
  THEN ExecErr(sh, "unknown table")
  ELSE ExecOk(InsertRows(sh, table, rows, tenant_id, now),
              SqlResult(<< >>, << >>, Len(rows)))

\* SqlExecutor::fetch_table_rows: row ids row_id .. max_row_id - 1
RECURSIVE FetchRows(_, _, _, _, _, _)
FetchRows(sh, table, tenant_id, version, row_id, max_row_id) ==
  IF row_id >= max_row_id THEN << >>
  ELSE Bind(EngineGet(sh.storage, encode_row_key(table, row_id, tenant_id), version),
            LAMBDA got :
         (IF got.some THEN << DeserializeRow(got.v) >> ELSE << >>)
           \o FetchRows(sh, table, tenant_id, version, row_id + 1, max_row_id))

fetch_table_rows(sh, table, tenant_id, version) ==
  FetchRows(sh, table, tenant_id, version, 0, current_row_count(sh, table, tenant_id))

\* SqlExecutor::exec_select for SELECT * FROM table
exec_select(sh, table, tenant_id) ==
  LET rows == fetch_table_rows(sh, table, tenant_id, snapshot(sh.clock))
  IN IF table \notin DOMAIN sh.catalog
     THEN ExecErr(sh, "unknown table")
     ELSE ExecOk(sh, SqlResult(sh.catalog[table], rows, 0))

\* the loop of exec_delete over row ids row_id .. max_row_id - 1, reading at
\* the snapshot taken before the loop
RECURSIVE DeleteRows(_, _, _, _, _, _)
DeleteRows(sh, table, tenant_id, version, row_id, max_row_id) ==
  IF row_id >= max_row_id THEN [sh |-> sh, rows_affected |-> 0]
  ELSE LET key == encode_row_key(table, row_id, tenant_id)
       IN Bind(EngineGet(sh.storage, key, version), LAMBDA got :
            IF got.some
            THEN Bind(next_version(sh.clock), LAMBDA nv :
                   Bind(DeleteRows([sh EXCEPT !.clock = nv.clock,
                                              !.storage = EngineDelete(sh.storage, key, nv.version)],
                                   table, tenant_id, version, row_id + 1, max_row_id),
                        LAMBDA r : [sh |-> r.sh, rows_affected |-> r.rows_affected + 1]))
            ELSE DeleteRows(sh, table, tenant_id, version, row_id + 1, max_row_id))

\* SqlExecutor::exec_delete for DELETE FROM table
exec_delete(sh, table, tenant_id) ==
  IF table \notin DOMAIN sh.catalog
  THEN ExecErr(sh, "unknown table")
  ELSE Bind(DeleteRows(sh, table, tenant_id, snapshot(sh.clock), 0,
                       current_row_count(sh, table, tenant_id)),
            LAMBDA r : ExecOk(r.sh, SqlResult(<< >>, << >>, r.rows_affected)))

\* the loop of exec_update over row ids row_id .. max_row_id - 1 for the
\* assignment id = val (column 0 of the schema), reading at the snapshot
\* taken before the loop
RECURSIVE UpdateRows(_, _, _, _, _, _, _, _)
UpdateRows(sh, table, tenant_id, val, version, row_id, max_row_id, now) ==
  IF row_id >= max_row_id THEN [sh |-> sh, rows_affected |-> 0]
  ELSE LET key == encode_row_key(table, row_id, tenant_id)
       IN Bind(EngineGet(sh.storage, key, version), LAMBDA got :
            IF got.some
            THEN Bind(DeserializeRow(got.v), LAMBDA row :
                 Bind(IF Len(row) >= 1 THEN [row EXCEPT ![1] = val] ELSE row, LAMBDA updated :
                 Bind(next_version(sh.clock), LAMBDA nv :
                 Bind(EnginePut(sh.storage, key, SerializeRow(updated), nv.version, now),
                      LAMBDA storage :
                 Bind(UpdateRows([sh EXCEPT !.clock = nv.clock, !.storage = storage],
                                 table, tenant_id, val, version, row_id + 1, max_row_id, now),
                      LAMBDA r : [sh |-> r.sh, rows_affected |-> r.rows_affected + 1])))))
            ELSE UpdateRows(sh, table, tenant_id, val, version, row_id + 1, max_row_id, now))

\* SqlExecutor::exec_update for UPDATE table SET id = val
exec_update(sh, table, val, tenant_id, now) ==
  IF table \notin DOMAIN sh.catalog
  THEN ExecErr(sh, "unknown table")
  ELSE Bind(UpdateRows(sh, table, tenant_id, val, snapshot(sh.clock), 0,
                       current_row_count(sh, table, tenant_id), now),
            LAMBDA r : ExecOk(r.sh, SqlResult(<< >>, << >>, r.rows_affected)))

\* SqlExecutor::execute: plan_statement, then dispatch on the plan
execute(sh, stmt, tenant_id, now) ==
  IF stmt.kind = "Query" /\ ~stmt.table.some THEN ExecErr(sh, "unsupported SQL")
  ELSE IF stmt.kind = "CreateTable" THEN exec_create_table(sh, stmt.table.v)
  ELSE IF stmt.kind = "Insert" THEN exec_insert(sh, stmt.table.v, stmt.rows, tenant_id, now)
  ELSE IF stmt.kind = "Query" THEN exec_select(sh, stmt.table.v, tenant_id)
  ELSE IF stmt.kind = "Delete" THEN exec_delete(sh, stmt.table.v, tenant_id)
  ELSE IF stmt.kind = "Update"
  THEN exec_update(sh, stmt.table.v, stmt.rows[1][1], tenant_id, now)
  ELSE ExecOk(sh, SqlResult(<< >>, << >>, 0))

\* ------------------------------------------------- raft.rs / failover.rs
\* RaftManager::quorum
\* quorum as it would be if half of the group were enough
quorum_HalfIsEnough(replication_factor) == replication_factor \div 2

quorum(replication_factor) == (replication_factor \div 2) + 1

\* The cluster behind a ShardRouter:
\*   shard_count, replication_factor : the configuration
\*   shards  : << shard_id, replica_id >> -> shard replica (its actor's state)
\*   leaders : shard_id -> replica_id   (RaftManager.leaders)
\*   health  : << shard_id, replica_id >> -> BOOLEAN  (FailoverManager.health of
\*             node "shard-<s>-replica-<r>")
Replicas(cl) == 0..(cl.replication_factor - 1)

\* FailoverManager::is_healthy
is_healthy(cl, shard_id, replica_id) ==
  IF << shard_id, replica_id >> \in DOMAIN cl.health
  THEN cl.health[<< shard_id, replica_id >>] ELSE FALSE

\* ShardRouter::new
RouterNew(shard_count, replication_factor, wal_enabled, memtable_max_bytes) ==
  [shard_count |-> shard_count,
   replication_factor |-> replication_factor,
   shards |-> [n \in (0..(shard_count - 1)) \X (0..(replication_factor - 1)) |->
                 ShardNew(wal_enabled, memtable_max_bytes)],
   leaders |-> [sid \in 0..(shard_count - 1) |-> 0],
   health |-> [n \in (0..(shard_count - 1)) \X (0..(replication_factor - 1)) |-> TRUE]]

\* select_leader as it would be if the remembered leader were kept whatever
\* its health
select_leader_KeepsLeader(cl, shard_id) ==
  IF shard_id \in DOMAIN cl.leaders /\ cl.leaders[shard_id] \in Replicas(cl)
  THEN [leader |-> cl.leaders[shard_id], cl |-> cl]
  ELSE [leader |-> 0, cl |-> cl]

\* ShardRouter::select_leader: the leader, and the cluster with it recorded
select_leader(cl, shard_id) ==
  IF shard_id \in DOMAIN cl.leaders
       /\ cl.leaders[shard_id] \in Replicas(cl)
       /\ is_healthy(cl, shard_id, cl.leaders[shard_id])
  THEN [leader |-> cl.leaders[shard_id], cl |-> cl]
  ELSE LET healthy == {r \in Replicas(cl) : is_healthy(cl, shard_id, r)}
           next == IF healthy = {} THEN 0
                   ELSE CHOOSE r \in healthy : \A o \in healthy : r <= o
       IN [leader |-> next,
           cl |-> [cl EXCEPT !.leaders =
                     [sid \in (DOMAIN cl.leaders) \cup {shard_id} |->
                        IF sid = shard_id THEN next ELSE cl.leaders[sid]]]]

\* ShardReplica::execute: the request is sent to the replica's actor, which
\* runs it on its executor and answers
ReplicaExecute(cl, shard_id, replica_id, stmt, tenant_id, now) ==
  Bind(execute(cl.shards[<< shard_id, replica_id >>], stmt, tenant_id, now),
       LAMBDA r : [ok |-> r.ok, err |-> r.err, result |-> r.result,
                   cl |-> [cl EXCEPT !.shards[<< shard_id, replica_id >>] = r.sh]])

\* the replication loop of execute_plan over replicas replica_id .. RF-1
RECURSIVE Replicate(_, _, _, _, _, _, _, _)
Replicate(cl, shard_id, leader, replica_id, stmt, tenant_id, now, acked) ==
  IF replica_id >= cl.replication_factor THEN [cl |-> cl, acked |-> acked]
  ELSE IF replica_id = leader \/ ~is_healthy(cl, shard_id, replica_id)
  THEN Replicate(cl, shard_id, leader, replica_id + 1, stmt, tenant_id, now, acked)
  ELSE Bind(ReplicaExecute(cl, shard_id, replica_id, stmt, tenant_id, now),
            LAMBDA r : Replicate(r.cl, shard_id, leader, replica_id + 1, stmt, tenant_id, now,
                                 IF r.ok THEN acked + 1 ELSE acked))

\* ShardRouter::execute_plan
execute_plan(cl, plan, tenant_id, now) ==
  Bind(select_leader(cl, plan.shard_id), LAMBDA sel :
    Bind(ReplicaExecute(sel.cl, plan.shard_id, sel.leader, plan.stmt, tenant_id, now),
         LAMBDA lead :
      IF ~lead.ok THEN lead
      ELSE IF plan.stmt.kind = "Query" THEN lead
      ELSE Bind(Replicate(lead.cl, plan.shard_id, sel.leader, 0, plan.stmt, tenant_id, now, 1),
                LAMBDA rep :
             IF rep.acked < quorum(cl.replication_factor)
             THEN [ok |-> FALSE, err |-> "replication quorum not reached",
                   result |-> lead.result, cl |-> rep.cl]
             ELSE [ok |-> TRUE, err |-> "", result |-> lead.result, cl |-> rep.cl])))

\* for plan in routed { results.push(router.execute_plan(plan, ..).await?) }
RECURSIVE ExecutePlans(_, _, _, _, _)
ExecutePlans(cl, plans, tenant_id, now, results) ==
  IF plans = << >> THEN [ok |-> TRUE, err |-> "", results |-> results, cl |-> cl]
  ELSE Bind(execute_plan(cl, Head(plans), tenant_id, now), LAMBDA r :
         IF ~r.ok THEN [ok |-> FALSE, err |-> r.err, results |-> results, cl |-> r.cl]
         ELSE ExecutePlans(r.cl, Tail(plans), tenant_id, now, Append(results, r.result)))

\* --------------------------------------------------------------- server.rs
\* is_transaction_control
is_transaction_control(stmt) == stmt.kind \in {"StartTransaction", "Commit", "Rollback"}

\* transaction_command_tag
transaction_command_tag(stmt) ==
  IF stmt.kind = "StartTransaction" THEN "BEGIN"
  ELSE IF stmt.kind = "Commit" THEN "COMMIT"
  ELSE "ROLLBACK"

\* is_rollback_or_commit as it would be if only ROLLBACK left Failed state
is_rollback_or_commit_OnlyRollback(stmt) == stmt.kind = "Rollback"

\* is_rollback_or_commit
is_rollback_or_commit(stmt) == stmt.kind \in {"Commit", "Rollback"}

\* connection_ready_state as it would be without the failed_tx test
connection_ready_state_IgnoresFailed(in_tx_, failed_tx_) ==
  IF in_tx_ THEN "T" ELSE "I"

\* connection_ready_state: the byte of ReadyForQuery
connection_ready_state(in_tx_, failed_tx_) ==
  IF failed_tx_ THEN "E" ELSE IF in_tx_ THEN "T" ELSE "I"

\* is_mutating_statement
is_mutating_statement(stmt) == stmt.kind \in {"Insert", "Update", "Delete", "CreateTable"}

\* buffered_insert_rows_affected
buffered_insert_rows_affected(stmt) ==
  IF stmt.kind = "Insert" THEN Len(stmt.rows) ELSE 0

\* authorize_statement: "" when allowed, else the error
authorize_statement(user_, stmt) ==
  IF ~user_.some THEN ""
  ELSE IF stmt.kind = "Query"
  THEN (IF user_.v.can_read THEN "" ELSE "read access denied")
  ELSE IF stmt.kind \in {"Insert", "Update", "Delete"}
  THEN (IF user_.v.can_write THEN "" ELSE "write access denied")
  ELSE (IF user_.v.is_admin THEN "" ELSE "admin access denied")

\* QueryResponseItem
ItemRows(result) == [item |-> "Rows", result |-> result, tag |-> << >>]

ItemTag(tag) == [item |-> "CommandCompleteOnly", result |-> SqlResult(<< >>, << >>, 0), tag |-> tag]

\* The COMMIT loop of handle_query: for buffered in tx_buffer.drain(..)
RECURSIVE CommitBuffered(_, _, _, _)
CommitBuffered(cl, buffer, tenant_id, now) ==
  IF buffer = << >> THEN [ok |-> TRUE, err |-> "", cl |-> cl]
  ELSE Bind(ExecutePlans(cl, route_plan(Head(buffer), cl.shard_count), tenant_id, now, << >>),
            LAMBDA r :
         IF ~r.ok THEN [ok |-> FALSE, err |-> r.err, cl |-> r.cl]
         ELSE CommitBuffered(r.cl, Tail(buffer), tenant_id, now))

AbortedMsg == "current transaction is aborted, commands ignored until end of transaction block"

\* handle_query over the parsed statements.  st is the state the function
\* works on: in_tx, failed_tx, tx_buffer (the &mut arguments), cl (the
\* router) and items.  The result is ok or the error, with the state as the
\* function left it.
RECURSIVE HandleStatements(_, _, _, _, _)
HandleStatements(st, statements, tenant_id, user_, now) ==
  IF statements = << >> THEN [ok |-> TRUE, err |-> "", st |-> st]
  ELSE
    LET stmt == Head(statements)
        rest == Tail(statements)
        tag == ItemTag(<< transaction_command_tag(stmt) >>)
    IN
    IF st.failed_tx
    THEN IF is_rollback_or_commit(stmt)
         THEN HandleStatements(
                [st EXCEPT !.tx_buffer = << >>, !.in_tx = FALSE, !.failed_tx = FALSE,
                           !.items = Append(st.items, tag)],
                rest, tenant_id, user_, now)
         ELSE [ok |-> FALSE, err |-> AbortedMsg, st |-> st]
    ELSE IF authorize_statement(user_, stmt) # ""
    THEN [ok |-> FALSE, err |-> authorize_statement(user_, stmt), st |-> st]
    ELSE IF is_transaction_control(stmt)
    THEN IF stmt.kind = "StartTransaction"
         THEN HandleStatements(
                [st EXCEPT !.in_tx = TRUE, !.tx_buffer = << >>,
                           !.items = Append(st.items, tag)],
                rest, tenant_id, user_, now)
         ELSE IF stmt.kind = "Commit"
         THEN Bind(CommitBuffered(st.cl, st.tx_buffer, tenant_id, now), LAMBDA c :
                IF ~c.ok
                THEN [ok |-> FALSE, err |-> c.err,
                      st |-> [st EXCEPT !.cl = c.cl, !.tx_buffer = << >>]]
                ELSE HandleStatements(
                       [st EXCEPT !.cl = c.cl, !.tx_buffer = << >>, !.in_tx = FALSE,
                                  !.items = Append(st.items, tag)],
                       rest, tenant_id, user_, now))
         ELSE HandleStatements(
                [st EXCEPT !.tx_buffer = << >>, !.in_tx = FALSE,
                           !.items = Append(st.items, tag)],
                rest, tenant_id, user_, now)
    ELSE IF st.in_tx /\ is_mutating_statement(stmt)
    THEN HandleStatements(
           [st EXCEPT !.tx_buffer = Append(st.tx_buffer, stmt),
                      !.items = Append(st.items,
                                  ItemTag(IF stmt.kind = "Insert"
                                          THEN << "OK", buffered_insert_rows_affected(stmt) >>
                                          ELSE << "OK" >>))],
           rest, tenant_id, user_, now)
    ELSE Bind(ExecutePlans(st.cl, route_plan(stmt, st.cl.shard_count), tenant_id, now, << >>),
              LAMBDA r :
           IF ~r.ok THEN [ok |-> FALSE, err |-> r.err, st |-> [st EXCEPT !.cl = r.cl]]
           ELSE HandleStatements(
                  [st EXCEPT !.cl = r.cl,
                             !.items = Append(st.items, ItemRows(aggregate(stmt, r.results)))],
                  rest, tenant_id, user_, now))

\* handle_query: parse_sql, then the statements in order
handle_query(cl, sql, tenant_id, user_, in_tx_, failed_tx_, tx_buffer_, now) ==
  LET st == [in_tx |-> in_tx_, failed_tx |-> failed_tx_, tx_buffer |-> tx_buffer_,
             cl |-> cl, items |-> << >>]
  IN IF ~sql.parses THEN [ok |-> FALSE, err |-> "sql parser error", st |-> st]
     ELSE HandleStatements(st, sql.statements, tenant_id, user_, now)

\* i64::to_string().into_bytes() of a non-negative number
RECURSIVE DecimalBytes(_)
DecimalBytes(n) ==
  IF n < 10 THEN << 48 + n >> ELSE DecimalBytes(n \div 10) \o << 48 + (n % 10) >>

\* data_value_to_bytes over the values of a row
data_row_values(row) == [i \in 1..Len(row) |-> Some(DecimalBytes(row[i]))]

\* Backend messages
MsgRowDescription(columns) == [type |-> "RowDescription", body |-> columns]

MsgDataRow(values) == [type |-> "DataRow", body |-> values]

MsgCommandComplete(tag) == [type |-> "CommandComplete", body |-> tag]

MsgErrorResponse(message) == [type |-> "ErrorResponse", body |-> message]

MsgReadyForQuery(state) == [type |-> "ReadyForQuery", body |-> state]

\* write_query_response: the messages written for the items, at most
\* max_rows DataRows over all of them when max_rows > 0
RECURSIVE WriteItems(_, _, _)
WriteItems(items, row_limit, rows_sent) ==
  IF items = << >> THEN << >>
  ELSE LET item == Head(items)
       IN IF item.item = "Rows"
          THEN LET result == item.result
                   remaining == IF row_limit < 0 THEN Len(result.rows)
                                ELSE IF row_limit >= rows_sent THEN row_limit - rows_sent ELSE 0
                   n == IF result.columns = << >> THEN 0
                        ELSE IF remaining < Len(result.rows) THEN remaining ELSE Len(result.rows)
                   tag == IF result.rows_affected > 0
                          THEN << "OK", result.rows_affected >> ELSE << "OK" >>
               IN (IF result.columns # << >>
                   THEN << MsgRowDescription(result.columns) >>
                          \o [i \in 1..n |-> MsgDataRow(data_row_values(result.rows[i]))]
                   ELSE << >>)
                    \o << MsgCommandComplete(tag) >>
                    \o WriteItems(Tail(items), row_limit, rows_sent + n)
          ELSE << MsgCommandComplete(item.tag) >> \o WriteItems(Tail(items), row_limit, rows_sent)

\* write_query_response as it would be without the row limit
write_query_response_Unlimited(items, max_rows) == WriteItems(items, -1, 0)

\* row_limit is -1 for usize::MAX (max_rows <= 0)
write_query_response(items, max_rows) ==
  WriteItems(items, IF max_rows > 0 THEN max_rows ELSE -1, 0)

\* ======================================================================
\* Specification SpecLsm: one engine driven by a sequential caller
\* ======================================================================
VARIABLES
  lsm,          \* the LsmEngine and the files of its data directory
  now,          \* the millisecond clock read by chrono_suffix
  nextVersion,  \* the version the caller passes to the next put / delete
  written,      \* history: the put / delete calls that returned Ok
  reopened,     \* history: the engine was dropped and opened again
  lastOp        \* history: the last engine call that returned

varsLsm == << lsm, now, nextVersion, written, reopened, lastOp >>

\* The state of specification SpecSession (one client connection and the
\* router it talks to)
VARIABLES
  router,     \* the ShardRouter: shard replicas, leaders, health
  user_ctx,   \* Option of the authenticated user's permissions
  in_tx,      \* handle_client's in_tx
  failed_tx,  \* handle_client's failed_tx
  tx_buffer,  \* handle_client's tx_buffer
  out,        \* the backend messages written for the last frontend message
  lastMsg,    \* history: the last frontend message handled
  prev,       \* history: in_tx, failed_tx, tx_buffer before that message
  at_begin,   \* history: the shard replicas as they were when the open
              \* transaction began (None outside a transaction)
  hist        \* history: the latest Query messages, while they follow one
              \* of the Scripts

varsSession ==
  << router, user_ctx, in_tx, failed_tx, tx_buffer, out, lastMsg, prev, at_begin, hist >>

\* The state of specification SpecRoute: the last call of route_plan
VARIABLES
  routed      \* the statement, the shard count and the plans returned

\* The state of specification SpecRouter: the last call made on the router
VARIABLES
  call        \* history: the call, its arguments and what it returned

\* The state of specification SpecMvcc: one MvccManager and its callers
VARIABLES
  mvcc        \* the clock, each caller's position and the values returned

\* The state of specification SpecTenant: one shard used by several tenants
VARIABLES
  tn          \* the shard, the rows each tenant wrote, the last statement

\* The state of specification SpecConn: one connection of handle_client
VARIABLES
  conn        \* the phase, the prepared statements and portals, the log

\* The state of the specifications of single components: a write-ahead log
\* read back (SpecWal), a catalog (SpecCatalog), a shard actor and its inbox
\* (SpecActor), the accept loop of run (SpecAccept)
VARIABLES
  walx,       \* the log file, what was appended and what replay returned
  cat,        \* the catalog, the last create_table and what it returned
  actor,      \* the inbox, the senders, the replica and the responses
  srv         \* the semaphore, the accept loop and the session tasks

\* The state of the specifications of concurrent callers: tasks calling one
\* engine at once (SpecRace), sessions writing to one replicated shard at
\* once (SpecReplicas)
VARIABLES
  race,       \* the memtable lock, each task's position and locals, history
  repl        \* the replicas' inboxes, each session's position, history

varsLast == << race, repl >>

LastIdle ==
  /\ race = [used |-> FALSE]
  /\ repl = [used |-> FALSE]

varsLater == << walx, cat, actor, srv, varsLast >>

varsMore == << call, mvcc, tn, conn, varsLater >>

vars == << varsLsm, varsSession, routed, varsMore >>

\* The session of a connection right after start-up (handle_client before
\* its loop): Idle, nothing buffered, ReadyForQuery('I') written
SessionStart ==
  /\ in_tx = FALSE
  /\ failed_tx = FALSE
  /\ tx_buffer = << >>
  /\ out = << MsgReadyForQuery("I") >>
  /\ lastMsg = [type |-> "Startup"]
  /\ prev = [in_tx |-> FALSE, failed_tx |-> FALSE, tx_buffer |-> << >>]
  /\ at_begin = None
  /\ hist = << >>

\* No call of route_plan observed
NotRouted == routed = [called |-> FALSE]

\* Nothing of the other specifications has happened
LaterIdle ==
  /\ walx = [used |-> FALSE]
  /\ cat = [used |-> FALSE]
  /\ actor = [used |-> FALSE]
  /\ srv = [used |-> FALSE]
  /\ LastIdle

MoreIdle ==
  /\ call = [kind |-> "none"]
  /\ mvcc = [used |-> FALSE]
  /\ tn = [used |-> FALSE]
  /\ conn = [used |-> FALSE]
  /\ LaterIdle

\* User keys of the engine specification (no key is a prefix of another)
UserKeys == { << 107 >>, << 117 >> }

\* Payloads: the caller writes a different one-byte value at every version,
\* so that a read tells which write it returns
Payloads == { << 97 >>, << 98 >>, << 99 >>, << 100 >>, << 101 >> }

PayloadAt(version) == << 96 + version >>

\* memtable_max_bytes of the options drawn at open: two entries of 11 bytes
\* reach the small limit, nothing reaches the large one
MemLimits == { 22, 1024 }

InitLsm ==
  /\ \E we \in BOOLEAN, lim \in MemLimits : lsm = EngineNew(we, lim)
  /\ now = 0
  /\ nextVersion = 1
  /\ written = {}
  /\ reopened = FALSE
  /\ lastOp = "open"
  /\ router = RouterNew(1, 1, TRUE, 1024)
  /\ user_ctx = None
  /\ SessionStart
  /\ NotRouted
  /\ MoreIdle

\* engine.put(key, value, version) with the next version
LsmPut(key, value) ==
  /\ UNCHANGED << varsSession, routed, varsMore >>
  /\ nextVersion <= MaxVersion
  /\ lsm' = EnginePut(lsm, key, value, nextVersion, now)
  /\ written' = written \cup {[key |-> key, version |-> nextVersion, value |-> Some(value)]}
  /\ nextVersion' = nextVersion + 1
  /\ lastOp' = "put"
  /\ UNCHANGED << now, reopened >>

\* engine.delete(key, version) with the next version
LsmDelete(key) ==
  /\ UNCHANGED << varsSession, routed, varsMore >>
  /\ nextVersion <= MaxVersion
  /\ lsm' = EngineDelete(lsm, key, nextVersion)
  /\ written' = written \cup {[key |-> key, version |-> nextVersion, value |-> None]}
  /\ nextVersion' = nextVersion + 1
  /\ lastOp' = "delete"
  /\ UNCHANGED << now, reopened >>

\* engine.flush()
LsmFlush ==
  /\ UNCHANGED << varsSession, routed, varsMore >>
  /\ lsm' = EngineFlush(lsm, now)
  /\ lastOp' = "flush"
  /\ UNCHANGED << now, nextVersion, written, reopened >>

\* engine.compact()
LsmCompact ==
  /\ UNCHANGED << varsSession, routed, varsMore >>
  /\ lsm' = EngineCompact(lsm, now)
  /\ lastOp' = "compact"
  /\ UNCHANGED << now, nextVersion, written, reopened >>

\* The wall clock advances by a millisecond
LsmTick ==
  /\ UNCHANGED << varsSession, routed, varsMore >>
  /\ now < MaxClock
  /\ now' = now + 1
  /\ UNCHANGED << lsm, nextVersion, written, reopened, lastOp >>

\* drop(engine) or a crash after the last call returned, then
\* LsmEngine::open(options) on the same directory
LsmReopen ==
  /\ UNCHANGED << varsSession, routed, varsMore >>
  /\ WalReplay(lsm.wal).ok
  /\ lsm' = EngineOpen(lsm)
  /\ reopened' = TRUE
  /\ lastOp' = "reopen"
  /\ UNCHANGED << now, nextVersion, written >>

NextLsm ==
  \/ \E k \in UserKeys, v \in Payloads : v = PayloadAt(nextVersion) /\ LsmPut(k, v)
  \/ \E k \in UserKeys : LsmDelete(k)
  \/ LsmFlush
  \/ LsmCompact
  \/ LsmTick
  \/ LsmReopen

SpecLsm == InitLsm /\ [][NextLsm]_vars

\* ---------------------------------------------------------------- claims
\* The versions a caller may read at
Snapshots == 1..(MaxVersion + 1)

PutsOf(key) == {w \in written : w.key = key /\ w.value.some}

\* C1: two puts of one key at versions v1 < v2 are both readable at their own
\* version, whether the versions sit in the memtable or in sorted runs (no
\* restart in between).
C1_PutGetByVersion ==
  ~reopened =>
    \A w1 \in written, w2 \in written :
      (w1.key = w2.key /\ w1.version < w2.version /\ w1.value.some /\ w2.value.some)
        => /\ EngineGet(lsm, w2.key, w2.version) = w2.value
           /\ EngineGet(lsm, w1.key, w1.version) = w1.value

\* C2: after put(k, x, v0) and delete(k, v) with v0 < v, a read at any
\* snapshot s >= v returns None, until a put at a version in (v, s].
C2_DeleteHides ==
  ~reopened =>
    \A w0 \in written, d \in written :
      (w0.key = d.key /\ w0.value.some /\ ~d.value.some /\ w0.version < d.version)
        => \A s \in Snapshots :
             (s >= d.version
                /\ ~\E p \in PutsOf(d.key) : p.version > d.version /\ p.version <= s)
               => EngineGet(lsm, d.key, s) = None

\* Every call so far was a put on the one key k
OnlyPutsOn(k) == written # {} /\ \A w \in written : w.key = k /\ w.value.some

LastWrite == CHOOSE w \in written : \A o \in written : o.version <= w.version

\* C3: puts on one key at increasing versions, then flush(), then drop and
\* reopen: a read at a snapshot >= the last version returns the last value.
C3_ReopenReadsLast ==
  [][ (lastOp = "flush" /\ lastOp' = "reopen" /\ ~reopened
         /\ \E k \in UserKeys : OnlyPutsOn(k))
        => \A s \in Snapshots :
             s >= LastWrite.version
               => EngineGet(lsm', LastWrite.key, s) = LastWrite.value ]_vars

\* C4: with the WAL enabled, the memtable rebuilt by open() holds exactly the
\* entries the memtable held before the crash.
C4_ReplayRestoresMemtable ==
  [][ (lastOp' = "reopen" /\ lsm.wal_enabled)
        => lsm'.memtable.entries = lsm.memtable.entries ]_vars

\* C4 witness: a reopen with the WAL enabled rebuilt a memtable that holds a
\* put and a tombstone
C4_Witness ==
  /\ lastOp = "reopen"
  /\ lsm.wal_enabled
  /\ \E k1 \in DOMAIN lsm.memtable.entries, k2 \in DOMAIN lsm.memtable.entries :
       /\ lsm.memtable.entries[k1] = << 0 >>
       /\ lsm.memtable.entries[k2][1] = 1


\* ======================================================================
\* Specification SpecSession: one client connection of handle_client
\* sending simple-protocol messages to a router of shard_count shards with
\* replication_factor replicas each, every replica healthy
\* ======================================================================
\* Table names: "t"
Tables == { << 116 >> }

\* The values of the single INT column a client inserts
RowValues == { 1, 2 }

\* The statements a client sends
Statements ==
  { StmtBegin, StmtCommit, StmtRollback, StmtSelect1 }
    \cup { StmtCreate(t) : t \in Tables }
    \cup { StmtSelect(t) : t \in Tables }
    \cup { StmtDelete(t) : t \in Tables }
    \cup { StmtInsert(t, << << v >> >>) : t \in Tables, v \in RowValues }

\* The text of a Query message as parse_sql sees it: it does not parse, or it
\* is a sequence of statements
SqlOf(statements) == [parses |-> TRUE, statements |-> statements]

SqlGarbage == [parses |-> FALSE, statements |-> << >>]

\* Query messages of one statement, and some of several statements
MultiStatementBatches ==
  { << StmtBegin, StmtInsert(<< 116 >>, << << 1 >> >>), StmtCommit >>,
    << StmtRollback, StmtBegin >>,
    << StmtInsert(<< 116 >>, << << 2 >> >>), StmtSelect(<< 116 >>) >> }

Sqls ==
  { SqlGarbage } \cup { SqlOf(<< st >>) : st \in Statements }
    \cup { SqlOf(b) : b \in MultiStatementBatches }

\* The users a connection authenticates as: none (auth disabled), or a user
\* whose roles allow reading and writing but not DDL
Users == { None, Some([can_read |-> TRUE, can_write |-> TRUE, is_admin |-> FALSE]) }

\* Rows a statement sequence inserts, and the mutations in it
RECURSIVE InsertedRows(_)
InsertedRows(statements) ==
  IF statements = << >> THEN 0
  ELSE buffered_insert_rows_affected(Head(statements)) + InsertedRows(Tail(statements))

RECURSIVE Mutations(_)
Mutations(statements) ==
  IF statements = << >> THEN 0
  ELSE (IF is_mutating_statement(Head(statements)) THEN 1 ELSE 0) + Mutations(Tail(statements))

\* The shard a table's writes go to, and the rows reserved for it there
HomeShard(t) == HashMod(hash_table(t), router.shard_count)

RowsReserved ==
  LET Count[ts \in SUBSET Tables] ==
        IF ts = {} THEN 0
        ELSE LET t == CHOOSE x \in ts : TRUE
             IN current_row_count(router.shards[<< HomeShard(t), 0 >>], t, None)
                  + Count[ts \ {t}]
  IN Count[Tables]

\* The scenarios the history follows, by statement
Scripts ==
  { << "StartTransaction", "Insert", "Query", "Rollback", "Query" >>,
    << "StartTransaction", "Query", "Select1", "Rollback" >>,
    << "CreateTable", "Insert", "Query" >>,
    << "CreateTable", "Insert", "Insert", "Query" >> }

Shape(stmt) ==
  IF stmt.kind = "Query" /\ ~stmt.table.some THEN "Select1" ELSE stmt.kind

IsPrefix(a, b) == Len(a) <= Len(b) /\ \A i \in 1..Len(a) : a[i] = b[i]

FollowsScript(h) ==
  \E sc \in Scripts : IsPrefix([i \in 1..Len(h) |-> Shape(h[i].stmt)], sc)

NextHist(sql, ok, state) ==
  IF sql.parses /\ Len(sql.statements) = 1
  THEN LET entry == [stmt |-> sql.statements[1], ok |-> ok, state |-> state]
       IN IF hist # << >> /\ FollowsScript(Append(hist, entry)) THEN Append(hist, entry)
          ELSE IF ~in_tx /\ ~failed_tx /\ FollowsScript(<< entry >>) THEN << entry >>
          ELSE << >>
  ELSE << >>

\* The replicas at the BEGIN of the transaction that is open after a Query
\* message (a transaction that stays open keeps its record)
HasCommit(sql) == \E i \in 1..Len(sql.statements) : sql.statements[i].kind = "Commit"

NextAtBegin(sql, in_tx_after, shards_after) ==
  IF ~in_tx_after THEN None
  ELSE IF in_tx /\ ~HasCommit(sql) THEN at_begin
  ELSE Some(shards_after)

\* The engine specification's state, held still
LsmIdle ==
  /\ lsm = EngineNew(TRUE, 1024)
  /\ now = 0
  /\ nextVersion = 1
  /\ written = {}
  /\ reopened = FALSE
  /\ lastOp = "open"

Session == [in_tx |-> in_tx, failed_tx |-> failed_tx, tx_buffer |-> tx_buffer]

InitSession ==
  /\ \E sc \in 1..MaxShards, rf \in 1..MaxReplicas : router = RouterNew(sc, rf, TRUE, 1024)
  /\ user_ctx \in Users
  /\ SessionStart
  /\ NotRouted
  /\ MoreIdle
  /\ LsmIdle

\* handle_client, FrontendMessage::Query { sql }
ClientQuery(sql) ==
  /\ sql.parses =>
       /\ RowsReserved + InsertedRows(tx_buffer) + InsertedRows(sql.statements) <= MaxRows
       /\ Len(tx_buffer) + Mutations(sql.statements) <= MaxBuffer
  /\ \E r \in { handle_query(router, sql, None, user_ctx, in_tx, failed_tx, tx_buffer, now) } :
     LET in_tx_ == IF r.ok THEN r.st.in_tx ELSE FALSE
         failed_tx_ == IF r.ok THEN r.st.failed_tx ELSE TRUE
         state == connection_ready_state(in_tx_, failed_tx_)
     IN /\ router' = r.st.cl
        /\ in_tx' = in_tx_
        /\ failed_tx' = failed_tx_
        /\ tx_buffer' = r.st.tx_buffer
        /\ out' = (IF r.ok THEN write_query_response(r.st.items, 0)
                   ELSE << MsgErrorResponse(r.err) >>)
                    \o << MsgReadyForQuery(state) >>
        /\ hist' = NextHist(sql, r.ok, state)
        /\ at_begin' = NextAtBegin(sql, in_tx_, r.st.cl.shards)
  /\ lastMsg' = [type |-> "Query", sql |-> sql]
  /\ prev' = Session
  /\ UNCHANGED << user_ctx, varsLsm, routed, varsMore >>

\* handle_client, FrontendMessage::Sync
ClientSync ==
  /\ out' = << MsgReadyForQuery(connection_ready_state(in_tx, failed_tx)) >>
  /\ lastMsg' = [type |-> "Sync"]
  /\ prev' = Session
  /\ hist' = << >>
  /\ UNCHANGED << router, user_ctx, in_tx, failed_tx, tx_buffer, at_begin, varsLsm, routed, varsMore >>

\* handle_client, FrontendMessage::Unsupported { code }
ClientUnsupported(code) ==
  /\ out' = << MsgErrorResponse(<< "unsupported message: ", code >>),
               MsgReadyForQuery(connection_ready_state(in_tx, failed_tx)) >>
  /\ lastMsg' = [type |-> "Unsupported", code |-> code]
  /\ prev' = Session
  /\ hist' = << >>
  /\ UNCHANGED << router, user_ctx, in_tx, failed_tx, tx_buffer, at_begin, varsLsm, routed, varsMore >>

\* A message type byte the server does not know: 'F' (FunctionCall)
UnsupportedCodes == { 70 }

NextSession ==
  \/ \E sql \in Sqls : ClientQuery(sql)
  \/ ClientSync
  \/ \E code \in UnsupportedCodes : ClientUnsupported(code)

SpecSession == InitSession /\ [][NextSession]_vars


\* ---------------------------------------------------------------- claims
\* The last frontend message was a Query of exactly these statements
QueryOf(msg, statements) == msg.type = "Query" /\ msg.sql = SqlOf(statements)

SingleStatement(msg) ==
  msg.type = "Query" /\ msg.sql.parses /\ Len(msg.sql.statements) = 1

\* The byte of the last message written
ReadyByte(o) == o[Len(o)].body

OfType(o, ty) == SelectSeq(o, LAMBDA m : m.type = ty)

Failed(o) == OfType(o, "ErrorResponse") # << >>

\* The rows of table t stored on its home shard, as a reader at the latest
\* snapshot finds them
RowsOf(shards, t) ==
  LET sh == shards[<< HomeShard(t), 0 >>]
  IN fetch_table_rows(sh, t, None, snapshot(sh.clock))

TableExists(shards, t) == t \in DOMAIN shards[<< HomeShard(t), 0 >>].catalog

\* The reply to a successful SELECT * FROM t that returns rows
SelectReply(rows, state) ==
  << MsgRowDescription(TableColumns) >>
    \o [i \in 1..Len(rows) |-> MsgDataRow(<< Some(DecimalBytes(rows[i][1])) >>)]
    \o << MsgCommandComplete(<< "OK" >>), MsgReadyForQuery(state) >>

\* The rows a sequence of buffered statements inserts into t, in order
RECURSIVE BufferedRows(_, _)
BufferedRows(buffer, t) ==
  IF buffer = << >> THEN << >>
  ELSE (IF Head(buffer).kind = "Insert" /\ Head(buffer).table = Some(t)
        THEN Head(buffer).rows ELSE << >>) \o BufferedRows(Tail(buffer), t)

OnlyInserts(buffer) == \A i \in 1..Len(buffer) : buffer[i].kind = "Insert"

C5_Buffered ==
  \A m \in Statements :
    (in_tx /\ QueryOf(lastMsg', << m >>) /\ is_mutating_statement(m)
       /\ authorize_statement(user_ctx, m) = "")
      => /\ router'.shards = router.shards
         /\ tx_buffer' = Append(tx_buffer, m)
         /\ in_tx' /\ ~failed_tx'

C5_SelectInTx ==
  \A t \in Tables :
    (in_tx /\ QueryOf(lastMsg', << StmtSelect(t) >>) /\ TableExists(at_begin.v, t)
       /\ authorize_statement(user_ctx, StmtSelect(t)) = "")
      => out' = SelectReply(RowsOf(at_begin.v, t), "T")

C5_Commit ==
  (in_tx /\ QueryOf(lastMsg', << StmtCommit >>) /\ authorize_statement(user_ctx, StmtCommit) = "")
    => /\ tx_buffer' = << >>
       /\ ~in_tx' /\ ~failed_tx'
       /\ out' = << MsgCommandComplete(<< "COMMIT" >>), MsgReadyForQuery("I") >>
       /\ \A t \in Tables :
            (OnlyInserts(tx_buffer) /\ TableExists(router.shards, t))
              => RowsOf(router'.shards, t)
                   = RowsOf(router.shards, t) \o BufferedRows(tx_buffer, t)

\* C5: in a transaction a mutation is only buffered (no replica changes), a
\* SELECT in the transaction returns exactly the rows committed before BEGIN,
\* and COMMIT applies the buffered mutations in order, empties the buffer
\* and leaves the session Idle with their effects visible
C5_TxBufferAndCommit == [][C5_Buffered /\ C5_SelectInTx /\ C5_Commit]_vars

C6_Frame ==
  (in_tx /\ QueryOf(lastMsg', << StmtRollback >>)
     /\ authorize_statement(user_ctx, StmtRollback) = "")
    => /\ router'.shards = at_begin.v
       /\ tx_buffer' = << >>
       /\ ~in_tx' /\ ~failed_tx'
       /\ out' = << MsgCommandComplete(<< "ROLLBACK" >>), MsgReadyForQuery("I") >>

RollbackScript == << "StartTransaction", "Insert", "Query", "Rollback", "Query" >>

HistShape == [i \in 1..Len(hist) |-> Shape(hist[i].stmt)]

\* the session BEGIN; INSERT INTO t; SELECT * FROM t; ROLLBACK; SELECT * FROM t
\* on an existing table t, as far as it has got
C6_Bytes ==
  (/\ Len(hist) >= 2
   /\ IsPrefix(HistShape, RollbackScript)
   /\ hist[1].ok
   /\ TableExists(router.shards, hist[2].stmt.table.v)
   /\ \A i \in 2..Len(hist) : hist[i].stmt.kind \in { "Insert", "Query" }
                                 => hist[i].stmt.table = hist[2].stmt.table)
    => \A i \in 1..Len(hist) : hist[i].state = << "T", "T", "T", "I", "I" >>[i]

\* C6: ROLLBACK in a transaction leaves every replica as it was at BEGIN,
\* empties the buffer, leaves the session Idle and answers
\* CommandComplete("ROLLBACK"); BEGIN; INSERT; SELECT; ROLLBACK; SELECT
\* answers the ReadyForQuery bytes T, T, T, I, I
C6_RollbackDiscards == [][C6_Frame /\ C6_Bytes']_vars

C7_FailInTx ==
  (in_tx /\ lastMsg'.type = "Query" /\ Failed(out')) => (failed_tx' /\ ~in_tx')

C7_Reject ==
  (/\ failed_tx
   /\ lastMsg'.type = "Query"
   /\ lastMsg'.sql.parses
   /\ lastMsg'.sql.statements # << >>
   /\ ~is_rollback_or_commit(lastMsg'.sql.statements[1]))
    => /\ out' = << MsgErrorResponse(AbortedMsg), MsgReadyForQuery("E") >>
       /\ router' = router
       /\ tx_buffer' = tx_buffer
       /\ failed_tx' /\ ~in_tx'

C7_Clear ==
  \A m \in { StmtCommit, StmtRollback } :
    (failed_tx /\ QueryOf(lastMsg', << m >>))
      => /\ ~failed_tx' /\ ~in_tx'
         /\ tx_buffer' = << >>
         /\ router' = router
         /\ out' = << MsgCommandComplete(<< transaction_command_tag(m) >>),
                      MsgReadyForQuery("I") >>

FailedScript == << "StartTransaction", "Query", "Select1", "Rollback" >>

\* the session BEGIN; a SELECT that fails; SELECT 1; ROLLBACK, as far as it
\* has got
C7_Bytes ==
  (/\ Len(hist) >= 2
   /\ IsPrefix(HistShape, FailedScript)
   /\ hist[1].ok
   /\ ~hist[2].ok)
    => \A i \in 1..Len(hist) : hist[i].state = << "T", "E", "E", "I" >>[i]

\* C7: a statement that fails in a transaction leaves the session Failed; in
\* Failed every statement but COMMIT / ROLLBACK is answered "current
\* transaction is aborted" with nothing executed or buffered and the session
\* still Failed; COMMIT / ROLLBACK clears the flag, discards the buffer
\* without applying it and leaves the session Idle; BEGIN; failing SELECT;
\* SELECT 1; ROLLBACK answers the bytes T, E, E, I
C7_FailedState == [][C7_FailInTx /\ C7_Reject /\ C7_Clear /\ C7_Bytes']_vars

\* a COMMIT in Failed state discarded a buffered statement, after the
\* statement that had failed the transaction was followed by a rejected one
C7_Witness ==
  /\ QueryOf(lastMsg, << StmtCommit >>)
  /\ prev.failed_tx
  /\ prev.tx_buffer # << >>
  /\ tx_buffer = << >>
  /\ ~failed_tx /\ ~in_tx

\* The transaction sub-state of the session
SubState ==
  IF failed_tx /\ ~in_tx THEN "Failed"
  ELSE IF in_tx /\ ~failed_tx THEN "InTransaction"
  ELSE IF ~in_tx /\ ~failed_tx THEN "Idle"
  ELSE "none"

ByteOf(sub) == IF sub = "Idle" THEN "I" ELSE IF sub = "InTransaction" THEN "T"
               ELSE IF sub = "Failed" THEN "E" ELSE "?"

\* C8: what is written for a Query, a Sync or an Unsupported message ends
\* with the only ReadyForQuery, which carries I when the session is Idle, T
\* when InTransaction and E when Failed; the session is in exactly one of
\* the three sub-states
C8_ReadyByte ==
  /\ SubState \in { "Idle", "InTransaction", "Failed" }
  /\ out # << >>
  /\ out[Len(out)].type = "ReadyForQuery"
  /\ Len(OfType(out, "ReadyForQuery")) = 1
  /\ ReadyByte(out) = ByteOf(SubState)

\* a Sync answered E in Failed state
C8_Witness ==
  /\ lastMsg.type = "Sync"
  /\ failed_tx
  /\ out = << MsgReadyForQuery("E") >>

Count(seq, x) == Cardinality({ i \in DOMAIN seq : seq[i] = x })

SameMultiset(a, b) ==
  Len(a) = Len(b) /\ \A i \in DOMAIN a : Count(a, a[i]) = Count(b, a[i])

CreateScripts == { << "CreateTable", "Insert", "Query" >>,
                   << "CreateTable", "Insert", "Insert", "Query" >> }

\* the rows inserted by hist[2 ..], in order
RECURSIVE HistRows(_)
HistRows(h) ==
  IF h = << >> THEN << >>
  ELSE (IF Head(h).stmt.kind = "Insert" THEN Head(h).stmt.rows ELSE << >>) \o HistRows(Tail(h))

\* C9: after CREATE TABLE t succeeds, the INSERTs into t and the SELECT * FROM
\* t that follow all succeed, and the SELECT returns exactly the inserted
\* rows as a multiset, for every shard_count and replication_factor
C9_CreateInsertSelect ==
  (/\ hist # << >>
   /\ \E sc \in CreateScripts : IsPrefix(HistShape, sc)
   /\ hist[1].ok
   /\ \A i \in 1..Len(hist) : hist[i].stmt.table = hist[1].stmt.table)
    => /\ \A i \in 1..Len(hist) : hist[i].ok
       /\ hist[Len(hist)].stmt.kind = "Query"
            => /\ OfType(out, "RowDescription") # << >>
               /\ SameMultiset(
                    OfType(out, "DataRow"),
                    [i \in 1..Len(HistRows(hist)) |->
                       MsgDataRow(<< Some(DecimalBytes(HistRows(hist)[i][1])) >>)])


\* ======================================================================
\* Specification SpecRoute: Coordinator::route_plan as a function of the
\* statement and the shard count
\* ======================================================================
\* Table names: every name of at most MaxNameLen bytes over "t" and "u",
\* and two names long enough for the hash to wrap around 2^64
NameBytes == { 116, 117 }

RECURSIVE NamesUpTo(_)
NamesUpTo(n) ==
  IF n = 0 THEN { << >> }
  ELSE LET shorter == NamesUpTo(n - 1)
       IN shorter \cup { Append(x, b) : x \in { y \in shorter : Len(y) = n - 1 },
                                        b \in NameBytes }

LongNames ==
  { [i \in 1..14 |-> 122], [i \in 1..16 |-> IF i % 2 = 0 THEN 255 ELSE 101] }

RouteNames == NamesUpTo(MaxNameLen) \cup LongNames

\* The statements routed: one of each kind for every name, and the
\* statements without a table
RouteStatements ==
  { StmtBegin, StmtSelect1 }
    \cup { StmtCreate(t) : t \in RouteNames }
    \cup { StmtSelect(t) : t \in RouteNames }
    \cup { StmtDelete(t) : t \in RouteNames }
    \cup { StmtInsert(t, << << 1 >> >>) : t \in RouteNames }

InitRoute ==
  /\ NotRouted
  /\ MoreIdle
  /\ router = RouterNew(1, 1, TRUE, 1024)
  /\ user_ctx = None
  /\ SessionStart
  /\ LsmIdle

\* Coordinator::new(shard_count).route_plan(&stmt)
Route(stmt, shard_count) ==
  /\ routed' = [called |-> TRUE, stmt |-> stmt, shard_count |-> shard_count,
                plans |-> route_plan(stmt, shard_count)]
  /\ UNCHANGED << varsLsm, varsSession, varsMore >>

NextRoute == \E stmt \in RouteStatements, n \in 1..MaxRouteShards : Route(stmt, n)

SpecRoute == InitRoute /\ [][NextRoute]_vars

\* ---------------------------------------------------------------- claims
\* hash(name) mod n for a hash that does not wrap: Horner's rule modulo n
RECURSIVE RollingMod(_, _, _)
RollingMod(acc, name, n) ==
  IF name = << >> THEN acc
  ELSE RollingMod((acc * 31 + Head(name)) % n, Tail(name), n)

\* 255 * (31^12 - 1) / 30 < 2^64: no name of 12 bytes wraps
NoWrap(name) == Len(name) <= 12

\* 2^64 is a multiple of n, so wrapping does not change the hash modulo n
DividesWord(n) == n \in { 1, 2, 4, 8 }

WritesTable(stmt) == stmt.kind \in { "Insert", "Delete", "CreateTable" } /\ stmt.table.some

MaxRouterShards == 2
MaxRouterReplicas == 3
MaxRouterNodes == 3
MaxRouterRows == 1

\* FailoverManager::mark_unhealthy / mark_healthy on the node of a replica
mark_unhealthy(cl, shard_id, replica_id) ==
  [cl EXCEPT !.health[<< shard_id, replica_id >>] = FALSE]

mark_healthy(cl, shard_id, replica_id) ==
  [cl EXCEPT !.health[<< shard_id, replica_id >>] = TRUE]

\* Table "t" is written on shard 0 of 2, table "u" on shard 1 of 2
RouterTables == { << 116 >>, << 117 >> }

RouterStatements ==
  UNION { { StmtCreate(t), StmtInsert(t, << << 1 >> >>), StmtSelect(t) } : t \in RouterTables }

RouterShardIds == 0..(router.shard_count - 1)

\* the bound on rows: no replica of the cluster holds MaxRouterRows rows of
\* the table yet
RouterRoom(stmt) ==
  stmt.kind = "Insert" =>
    \A n \in DOMAIN router.shards :
      current_row_count(router.shards[n], stmt.table.v, None) < MaxRouterRows

InitRouter ==
  /\ \E sc \in 1..MaxRouterShards, rf \in 1..MaxRouterReplicas :
       /\ sc * rf <= MaxRouterNodes
       /\ router = RouterNew(sc, rf, TRUE, 1024)
  /\ user_ctx = None
  /\ SessionStart
  /\ LsmIdle
  /\ NotRouted
  /\ call = [kind |-> "none"]
  /\ mvcc = [used |-> FALSE]
  /\ tn = [used |-> FALSE]
  /\ conn = [used |-> FALSE]
  /\ LaterIdle

varsRouterFrame ==
  << varsLsm, user_ctx, in_tx, failed_tx, tx_buffer, out, lastMsg, prev, at_begin, hist,
     routed, mvcc, tn, conn, varsLater >>

\* router.execute_plan(plan, None) for one of the plans of a statement
RouterExecutePlan(stmt, i) ==
  /\ RouterRoom(stmt)
  /\ i \in 1..Len(route_plan(stmt, router.shard_count))
  /\ \E plan \in { route_plan(stmt, router.shard_count)[i] } :
     \E r \in { execute_plan(router, plan, None, now) } :
       /\ router' = r.cl
       /\ call' = [kind |-> "execute_plan", plan |-> plan,
                   leader |-> r.cl.leaders[plan.shard_id],
                   ok |-> r.ok, err |-> r.err, result |-> r.result]
  /\ UNCHANGED varsRouterFrame

\* router.select_leader(group) on its own
RouterSelectLeader(shard_id) ==
  /\ \E sel \in { select_leader(router, shard_id) } :
       /\ router' = sel.cl
       /\ call' = [kind |-> "select_leader", shard_id |-> shard_id, leader |-> sel.leader]
  /\ UNCHANGED varsRouterFrame

\* failover.mark_unhealthy(node)
RouterMarkUnhealthy(shard_id, replica_id) ==
  /\ router.health[<< shard_id, replica_id >>]
  /\ router' = mark_unhealthy(router, shard_id, replica_id)
  /\ call' = [kind |-> "mark_unhealthy", shard_id |-> shard_id, replica_id |-> replica_id]
  /\ UNCHANGED varsRouterFrame

\* failover.mark_healthy(node)
RouterMarkHealthy(shard_id, replica_id) ==
  /\ ~router.health[<< shard_id, replica_id >>]
  /\ router' = mark_healthy(router, shard_id, replica_id)
  /\ call' = [kind |-> "mark_healthy", shard_id |-> shard_id, replica_id |-> replica_id]
  /\ UNCHANGED varsRouterFrame

NextRouter ==
  \/ \E stmt \in RouterStatements, i \in 1..MaxRouterShards : RouterExecutePlan(stmt, i)
  \/ \E s \in RouterShardIds : RouterSelectLeader(s)
  \/ \E n \in DOMAIN router.health : RouterMarkUnhealthy(n[1], n[2])
  \/ \E n \in DOMAIN router.health : RouterMarkHealthy(n[1], n[2])

SpecRouter == InitRouter /\ [][NextRouter]_vars


\* ---------------------------------------------------------------- C11
IsWrite(stmt) == stmt.kind # "Query"

QuorumError == "replication quorum not reached"

\* what replica r of the shard would answer to the statement in cluster cl
AnswerOf(cl, shard_id, r, stmt) == execute(cl.shards[<< shard_id, r >>], stmt, None, now)

\* the acknowledgements of a write led by `leader`, counted on the cluster
\* as it was before the call
AcksOf(cl, shard_id, leader, stmt) ==
  1 + Cardinality({ r \in Replicas(cl) \ { leader } :
                      /\ is_healthy(cl, shard_id, r)
                      /\ AnswerOf(cl, shard_id, r, stmt).ok })

\* a non-leader replica that was sent the statement and answered an error
FailedReplicas(cl, shard_id, leader, stmt) ==
  { r \in Replicas(cl) \ { leader } :
      is_healthy(cl, shard_id, r) /\ ~AnswerOf(cl, shard_id, r, stmt).ok }

C11_Step ==
  call'.kind = "execute_plan" =>
    LET plan == call'.plan
        sid == plan.shard_id
        leader == call'.leader
        lead == AnswerOf(router, sid, leader, plan.stmt)
        acks == AcksOf(router, sid, leader, plan.stmt)
        quorumError == ~call'.ok /\ call'.err = QuorumError
    IN /\ (IsWrite(plan.stmt) /\ lead.ok) =>
            /\ quorumError <=> (acks < (router.replication_factor \div 2) + 1)
            /\ ~quorumError => call'.ok /\ call'.result = lead.result
            /\ \A r \in Replicas(router) \ { leader } :
                 ~is_healthy(router, sid, r) =>
                   router'.shards[<< sid, r >>] = router.shards[<< sid, r >>]
       /\ ~IsWrite(plan.stmt) =>
            /\ ~quorumError
            /\ call'.ok = lead.ok
            /\ call'.ok => call'.result = lead.result
            /\ \A r \in Replicas(router) \ { leader } :
                 router'.shards[<< sid, r >>] = router.shards[<< sid, r >>]

\* C11: a write that succeeded on the leader fails with the quorum error
\* exactly when 1 + (healthy non-leader replicas that executed it) is below
\* floor(RF/2)+1; unhealthy replicas are left untouched; a read runs on the
\* leader only and never gives the quorum error
C11_Quorum == [][C11_Step]_vars

\* an INSERT returned Ok with three replicas although a healthy non-leader
\* replica, which never saw the CREATE TABLE, answered it with an error
C11_Witness ==
  /\ call.kind = "execute_plan"
  /\ call.plan.stmt.kind = "Insert"
  /\ call.ok
  /\ router.replication_factor = 3
  /\ \E r \in Replicas(router) \ { call.leader } :
       /\ is_healthy(router, call.plan.shard_id, r)
       /\ call.plan.stmt.table.v \notin
            DOMAIN router.shards[<< call.plan.shard_id, r >>].catalog

\* ---------------------------------------------------------------- C12
HealthyReplicas(cl, shard_id) == { r \in Replicas(cl) : is_healthy(cl, shard_id, r) }

LowestOf(S) == CHOOSE r \in S : \A o \in S : r <= o

ShardOfCall(c) == IF c.kind = "execute_plan" THEN c.plan.shard_id ELSE c.shard_id

C12_Step ==
  call'.kind \in { "select_leader", "execute_plan" } =>
    LET sid == ShardOfCall(call')
        old == router.leaders[sid]
        healthy == HealthyReplicas(router, sid)
        expected == IF old \in healthy THEN old
                    ELSE IF healthy # {} THEN LowestOf(healthy) ELSE 0
    IN /\ call'.leader = expected
       /\ router'.leaders[sid] = expected
       /\ \A o \in DOMAIN router.leaders : o # sid => router'.leaders[o] = router.leaders[o]
       /\ healthy # {} => call'.leader \in healthy
       /\ (old \notin healthy /\ healthy # {}) => call'.leader # old

\* C12: select_leader keeps a healthy remembered leader, otherwise returns
\* and records the lowest-indexed healthy replica (0 if none); the leader
\* returned is healthy whenever a replica is, and differs from an unhealthy
\* old leader when another replica is healthy
C12_SelectLeader == [][C12_Step]_vars

\* a selection moved the leadership away from replica 0, which is unhealthy
C12_Witness ==
  /\ call.kind = "select_leader"
  /\ call.leader # 0
  /\ ~is_healthy(router, call.shard_id, 0)
  /\ router.leaders[call.shard_id] = call.leader


\* ---------------------------------------------------------------- C14
\* the version suffix of a versioned key of the storage engine
VersionOfKey(k) == FromU64BE(SubSeq(k, Len(k) - 7, Len(k)))

\* the versions assigned to the writes held by the replicas of a shard
VersionsOnShard(shard_id) ==
  UNION { { VersionOfKey(k) :
              k \in DOMAIN router.shards[<< shard_id, r >>].storage.memtable.entries } :
          r \in Replicas(router) }

\* C14: versions are global: writes performed on different shards are never
\* assigned the same version
C14_GlobalVersions ==
  \A s1, s2 \in RouterShardIds :
    s1 # s2 => VersionsOnShard(s1) \cap VersionsOnShard(s2) = {}


\* ======================================================================
\* Specification SpecMvcc: one MvccManager shared by concurrent callers.
\* A call is invoked, performs its one atomic operation on the clock
\* (fetch_add or load, both SeqCst) and returns.
\* ======================================================================
MaxCallers == 3
MaxMvccCalls == 4

Callers == 1..MaxCallers

MvccOps == { "next_version", "snapshot" }

MaxOf(S) == CHOOSE x \in S : \A y \in S : y <= x

\* no session and no router are involved
SessionIdle ==
  /\ router = RouterNew(1, 1, TRUE, 1024)
  /\ user_ctx = None
  /\ SessionStart

CallerIdle == [pc |-> "idle"]

\* mvcc.clock    : the AtomicU64
\* mvcc.callers  : each caller's position; an invoked call remembers in
\*                 `seen` the largest version returned to a call that had
\*                 completed when it started
\* mvcc.given    : history of the values handed out by next_version
\* mvcc.returned : history of the values of the next_version calls that
\*                 have returned
\* mvcc.snaps    : history of the values of the snapshot calls that have
\*                 returned; an invoked call remembers the largest of them
\*                 in `snap_seen`
InitMvcc ==
  /\ mvcc = [used |-> TRUE, clock |-> MvccNew, callers |-> [p \in Callers |-> CallerIdle],
             given |-> << >>, returned |-> {}, snaps |-> {}]
  /\ LsmIdle
  /\ SessionIdle
  /\ NotRouted
  /\ call = [kind |-> "none"]
  /\ tn = [used |-> FALSE]
  /\ conn = [used |-> FALSE]
  /\ LaterIdle

varsMvccFrame == << varsLsm, varsSession, routed, call, tn, conn, varsLater >>

\* a caller enters next_version() or snapshot()
MvccInvoke(p, op) ==
  /\ mvcc.callers[p].pc = "idle"
  /\ op = "next_version" =>
       Len(mvcc.given)
         + Cardinality({ q \in Callers : /\ mvcc.callers[q].pc = "invoked"
                                         /\ mvcc.callers[q].op = "next_version" })
         < MaxMvccCalls
  /\ mvcc' = [mvcc EXCEPT !.callers[p] =
                [pc |-> "invoked", op |-> op, seen |-> MaxOf(mvcc.returned \cup { 0 }),
                 snap_seen |-> MaxOf(mvcc.snaps \cup { 0 })]]
  /\ UNCHANGED varsMvccFrame

\* self.clock.fetch_add(1, Ordering::SeqCst)
MvccFetchAdd(p) ==
  /\ mvcc.callers[p].pc = "invoked"
  /\ mvcc.callers[p].op = "next_version"
  /\ \E nv \in { next_version(mvcc.clock) } :
       mvcc' = [mvcc EXCEPT !.clock = nv.clock,
                            !.given = Append(@, nv.version),
                            !.callers[p] = [@ EXCEPT !.pc = "got"] @@ [ret |-> nv.version]]
  /\ UNCHANGED varsMvccFrame

\* self.clock.load(Ordering::SeqCst)
MvccLoad(p) ==
  /\ mvcc.callers[p].pc = "invoked"
  /\ mvcc.callers[p].op = "snapshot"
  /\ mvcc' = [mvcc EXCEPT !.callers[p] =
                [@ EXCEPT !.pc = "got"] @@ [ret |-> snapshot(mvcc.clock)]]
  /\ UNCHANGED varsMvccFrame

\* the call returns its value to the caller
MvccReturn(p) ==
  /\ mvcc.callers[p].pc = "got"
  /\ mvcc' = [mvcc EXCEPT !.callers[p] = CallerIdle,
                          !.returned = IF mvcc.callers[p].op = "next_version"
                                       THEN @ \cup { mvcc.callers[p].ret } ELSE @,
                          !.snaps = IF mvcc.callers[p].op = "snapshot"
                                    THEN @ \cup { mvcc.callers[p].ret } ELSE @]
  /\ UNCHANGED varsMvccFrame

NextMvcc ==
  \/ \E p \in Callers, op \in MvccOps : MvccInvoke(p, op)
  \/ \E p \in Callers : MvccFetchAdd(p)
  \/ \E p \in Callers : MvccLoad(p)
  \/ \E p \in Callers : MvccReturn(p)

SpecMvcc == InitMvcc /\ [][NextMvcc]_vars

\* ---------------------------------------------------------------- C13
\* C13: next_version never hands out a value twice, the first value is 1,
\* every value is greater than each value returned to a call that completed
\* before this one started, and a snapshot is at least every such value
C13_Versions ==
  /\ \A i, j \in 1..Len(mvcc.given) : i # j => mvcc.given[i] # mvcc.given[j]
  /\ mvcc.given # << >> => mvcc.given[1] = 1
  /\ \A p \in Callers :
       mvcc.callers[p].pc = "got" =>
         IF mvcc.callers[p].op = "next_version"
         THEN mvcc.callers[p].ret > mvcc.callers[p].seen
         ELSE mvcc.callers[p].ret >= mvcc.callers[p].seen

\* two next_version calls overlap (one holds its value, the other has not
\* yet performed its fetch_add) while a third call started after a version
\* had been returned
C13_Witness ==
  \E p, q, o \in Callers :
    /\ mvcc.callers[p].pc = "got" /\ mvcc.callers[p].op = "next_version"
    /\ mvcc.callers[q].pc = "invoked" /\ mvcc.callers[q].op = "next_version"
    /\ mvcc.callers[o].pc = "got" /\ mvcc.callers[o].seen >= 1
    /\ o # p


\* ======================================================================
\* Specification SpecTenant: one shard replica executing the statements of
\* connections that carry different tenant ids (or none)
\* ======================================================================
MaxTenantRows == 1
MaxTenantClock == 5

\* tenant_id of a connection: none, "a" or "b"
Tenants == { None, Some(<< 97 >>), Some(<< 98 >>) }

TenantTable == << 116 >>

\* Every tenant writes values of its own, so that a row tells who wrote it:
\* the value a tenant inserts and the value it updates to
InsertValueOf(tenant_id) == IF ~tenant_id.some THEN 1 ELSE IF tenant_id.v = << 97 >> THEN 3 ELSE 5

UpdateValueOf(tenant_id) == InsertValueOf(tenant_id) + 1

ValuesOf(tenant_id) == { InsertValueOf(tenant_id), UpdateValueOf(tenant_id) }

TenantStatements(tenant_id) ==
  { StmtCreate(TenantTable),
    StmtInsert(TenantTable, << << InsertValueOf(tenant_id) >> >>),
    StmtUpdate(TenantTable, UpdateValueOf(tenant_id)),
    StmtDelete(TenantTable),
    StmtSelect(TenantTable) }

\* memtable_max_bytes of the shard: the small limit is reached by the third
\* row version, the large one never
TenantMemLimits == { 80, 1024 }

InitTenant ==
  /\ \E lim \in TenantMemLimits :
       tn = [used |-> TRUE, sh |-> ShardNew(TRUE, lim), ms |-> 0, last |-> [kind |-> "none"]]
  /\ LsmIdle
  /\ SessionIdle
  /\ NotRouted
  /\ call = [kind |-> "none"]
  /\ mvcc = [used |-> FALSE]
  /\ conn = [used |-> FALSE]
  /\ LaterIdle

varsTenantFrame == << varsLsm, varsSession, routed, call, mvcc, conn, varsLater >>

\* the bounds: rows per tenant, and versions handed out by the shard's clock
TenantRoom(stmt, tenant_id) ==
  /\ stmt.kind = "Insert" =>
       current_row_count(tn.sh, stmt.table.v, tenant_id) < MaxTenantRows
  /\ stmt.kind \in { "Insert", "Update", "Delete" } => tn.sh.clock <= MaxTenantClock

\* SqlExecutor::execute(stmt, tenant_id) on the shard, for a connection of
\* the tenant; the wall clock advances between statements
TenantExecute(tenant_id, stmt) ==
  /\ TenantRoom(stmt, tenant_id)
  /\ \E r \in { execute(tn.sh, stmt, tenant_id, tn.ms) } :
       tn' = [used |-> TRUE, sh |-> r.sh,
              ms |-> IF r.sh = tn.sh THEN tn.ms ELSE tn.ms + 1,
              last |-> [kind |-> stmt.kind, tenant_id |-> tenant_id,
                        ok |-> r.ok, result |-> r.result]]
  /\ UNCHANGED varsTenantFrame

NextTenant ==
  \E tenant_id \in Tenants : \E stmt \in TenantStatements(tenant_id) :
    TenantExecute(tenant_id, stmt)

SpecTenant == InitTenant /\ [][NextTenant]_vars

\* ---------------------------------------------------------------- C15
\* what a SELECT * of the tenant answers on shard sh
ReadBy(sh, tenant_id) ==
  Bind(exec_select(sh, TenantTable, tenant_id), LAMBDA r : [ok |-> r.ok, result |-> r.result])

RowValuesIn(result) ==
  UNION { { result.rows[i][j] : j \in 1..Len(result.rows[i]) } : i \in 1..Len(result.rows) }

C15_Step ==
  tn'.last.kind # "none" =>
    /\ (tn'.last.kind = "Query" /\ tn'.last.ok) =>
         RowValuesIn(tn'.last.result) \subseteq ValuesOf(tn'.last.tenant_id)
    /\ tn'.last.kind \in { "Update", "Delete" } =>
         \A other \in Tenants \ { tn'.last.tenant_id } :
           ReadBy(tn'.sh, other) = ReadBy(tn.sh, other)

\* C15: a SELECT of a tenant returns only rows that tenant wrote, and an
\* UPDATE or DELETE of a tenant leaves the answer to every other tenant's
\* SELECT as it was
C15_TenantIsolation == [][C15_Step]_vars


\* ======================================================================
\* Specification SpecAuth: the session of SpecSession on one single-replica
\* shard, for principals of every permission class
\* ======================================================================
\* None: authentication disabled.  Otherwise the UserContext built from the
\* roles of the authenticated user
AuthUsers ==
  { None } \cup
  { Some([can_read |-> r, can_write |-> w, is_admin |-> a]) :
      r \in BOOLEAN, w \in BOOLEAN, a \in BOOLEAN }

InitAuth ==
  /\ router = RouterNew(1, 1, TRUE, 1024)
  /\ user_ctx \in AuthUsers
  /\ SessionStart
  /\ NotRouted
  /\ MoreIdle
  /\ LsmIdle

SpecAuth == InitAuth /\ [][NextSession]_vars

\* ---------------------------------------------------------------- C16
\* the permission class a statement requires
HoldsClass(u, stmt) ==
  IF stmt.kind = "Query" THEN u.can_read
  ELSE IF stmt.kind \in { "Insert", "Update", "Delete" } THEN u.can_write
  ELSE u.is_admin

AccessDenied ==
  { MsgErrorResponse("read access denied"), MsgErrorResponse("write access denied"),
    MsgErrorResponse("admin access denied") }

C16_Step ==
  (lastMsg'.type = "Query" /\ lastMsg'.sql.parses /\ Len(lastMsg'.sql.statements) = 1) =>
    LET stmt == lastMsg'.sql.statements[1]
    IN /\ (user_ctx.some /\ ~HoldsClass(user_ctx.v, stmt)) =>
            /\ Len(out') = 2
            /\ out'[1].type = "ErrorResponse"
            /\ ~failed_tx => out'[1] \in AccessDenied
            /\ router' = router
            /\ tx_buffer' = tx_buffer
       /\ ~user_ctx.some => out'[1] \notin AccessDenied

\* C16: in every session state (Idle, InTransaction, Failed) a statement of
\* an authenticated principal that lacks the statement's permission class
\* is not accepted: it is answered with an error (the access-denied error
\* unless the session is Failed) and is neither executed nor buffered;
\* without authentication nothing is denied
C16_Authorize == [][C16_Step]_vars


\* ======================================================================
\* Specification SpecConn: one connection served by handle_client, from the
\* startup packet to the end of its task, on one single-replica shard
\* ======================================================================
MaxFetch == 2

\* a backend message without fields
MsgPlain(type) == [type |-> type, body |-> << >>]

MsgParameterStatus(key, value) == [type |-> "ParameterStatus", body |-> << key, value >>]

\* [security.auth] of the configuration: user "alice" with password "pw"
\* and the role "admin", which sets is_admin only
AuthUsersConfig == [alice |-> [password_plain |-> "pw", roles |-> { "admin" }]]

AuthRolesConfig == [admin |-> [can_read |-> FALSE, can_write |-> FALSE, is_admin |-> TRUE]]

\* authenticate as it would be if the password were not compared
authenticate_AnyPassword(username, password) ==
  IF username \notin DOMAIN AuthUsersConfig THEN [ok |-> FALSE, err |-> "unknown user"]
  ELSE LET role_defs == { AuthRolesConfig[n] :
                            n \in AuthUsersConfig[username].roles \cap DOMAIN AuthRolesConfig }
       IN [ok |-> TRUE, err |-> "",
           ctx |-> [can_read |-> \E role \in role_defs : role.can_read \/ role.is_admin,
                    can_write |-> \E role \in role_defs : role.can_write \/ role.is_admin,
                    is_admin |-> \E role \in role_defs : role.is_admin]]

\* AuthManager::authenticate
authenticate(username, password) ==
  IF username \notin DOMAIN AuthUsersConfig THEN [ok |-> FALSE, err |-> "unknown user"]
  ELSE IF AuthUsersConfig[username].password_plain # password
  THEN [ok |-> FALSE, err |-> "invalid password"]
  ELSE LET role_defs == { AuthRolesConfig[n] :
                            n \in AuthUsersConfig[username].roles \cap DOMAIN AuthRolesConfig }
       IN [ok |-> TRUE, err |-> "",
           ctx |-> [can_read |-> \E role \in role_defs : role.can_read \/ role.is_admin,
                    can_write |-> \E role \in role_defs : role.can_write \/ role.is_admin,
                    is_admin |-> \E role \in role_defs : role.is_admin]]

\* the three messages that end a successful handshake
HandshakeOk ==
  << MsgPlain("AuthenticationOk"), MsgParameterStatus("server_version", "14.0"),
     MsgReadyForQuery("I") >>

\* handle_client from read_startup up to its next read: what is written and
\* where the task stands.  startup.ok is FALSE when read_startup fails.
handshake_startup(auth_enabled, startup) ==
  IF ~startup.ok THEN [sent |-> << >>, phase |-> "closed"]
  ELSE IF auth_enabled
  THEN IF ~startup.user.some
       THEN [sent |-> << MsgErrorResponse("missing user") >>, phase |-> "closed"]
       ELSE [sent |-> << MsgPlain("AuthenticationCleartextPassword") >>, phase |-> "password"]
  ELSE [sent |-> HandshakeOk, phase |-> "ready"]

\* handle_client from the read of the password message up to the loop
handshake_password(username, msg) ==
  IF msg.type # "Password"
  THEN [sent |-> << MsgErrorResponse("missing password") >>, phase |-> "closed",
        user_ctx |-> None]
  ELSE Bind(authenticate(username, msg.password), LAMBDA a :
         IF a.ok
         THEN [sent |-> HandshakeOk, phase |-> "ready", user_ctx |-> Some(a.ctx)]
         ELSE [sent |-> << MsgErrorResponse(a.err) >>, phase |-> "closed", user_ctx |-> None])

MsgParameterDescription(param_oids) ==
  [type |-> "ParameterDescription", body |-> param_oids]

\* format!("unknown {} '{}'", what, name)
UnknownName(what, name) == "unknown " \o what \o " '" \o name \o "'"

\* HashMap get / insert / remove on a function
MapGet(m, k) == IF k \in DOMAIN m THEN Some(m[k]) ELSE None

MapInsert(m, k, v) == [x \in (DOMAIN m) \cup { k } |-> IF x = k THEN v ELSE m[x]]

MapRemove(m, k) == [x \in (DOMAIN m) \ { k } |-> m[x]]

\* map.get(name).or_else(|| map.get(""))
Resolve(m, name) == IF name \in DOMAIN m THEN Some(m[name]) ELSE MapGet(m, "")

\* Portal::render_sql of a portal without parameters: the template
render_sql(portal) == portal.sql_template

\* The startup packets: unreadable, without user, user "alice", user "bob"
Startups ==
  { [ok |-> FALSE, user |-> None], [ok |-> TRUE, user |-> None],
    [ok |-> TRUE, user |-> Some("alice")], [ok |-> TRUE, user |-> Some("bob")] }

\* What read_message returns where the password is expected
PasswordReads ==
  { [type |-> "Password", password |-> "pw"], [type |-> "Password", password |-> "bad"],
    [type |-> "Query"], [type |-> "Terminate"] }

ConnTable == << 116 >>

\* Query texts of the connection
ConnSqls ==
  { SqlGarbage, SqlOf(<< StmtCreate(ConnTable) >>),
    SqlOf(<< StmtInsert(ConnTable, << << 1 >> >>) >>),
    SqlOf(<< StmtSelect(ConnTable) >>), SqlOf(<< StmtRollback >>) }

\* Query texts of Parse messages
ParseSqls ==
  { SqlOf(<< StmtSelect(ConnTable) >>), SqlOf(<< StmtInsert(ConnTable, << << 1 >> >>) >>) }

\* The parameter types of a Parse message: none, or one int4 (23)
ConnParamOids == { << >>, << 23 >> }

\* conn.auth_enabled, conn.idle_timeout : the configuration
\* conn.phase    : "startup" (read_startup pending), "password" (the read of
\*                 the password message pending), "ready" (in the loop),
\*                 "closed" (handle_client returned)
\* conn.permit   : the task holds its connection-limit permit
\* conn.startup, conn.password : history: the handshake messages read
\* conn.sent     : history: everything written during the handshake
\* conn.prepared_statements, conn.portals : the maps of handle_client
\* conn.closed   : history: the portal names closed by a Close message
\*                 and named by no Bind message since
\* conn.eof      : the client has closed its end of the stream
\* conn.turn     : parity of the number of reads made at end of stream
InitConn ==
  /\ \E ae \in BOOLEAN, it \in BOOLEAN :
       conn = [used |-> TRUE, auth_enabled |-> ae, idle_timeout |-> it,
               phase |-> "startup", permit |-> TRUE,
               startup |-> None, password |-> None, sent |-> << >>,
               prepared_statements |-> << >>, portals |-> << >>,
               closed |-> {}, eof |-> FALSE, turn |-> 0]
  /\ router = RouterNew(1, 1, TRUE, 1024)
  /\ user_ctx = None
  /\ in_tx = FALSE
  /\ failed_tx = FALSE
  /\ tx_buffer = << >>
  /\ out = << >>
  /\ lastMsg = [type |-> "None"]
  /\ prev = [in_tx |-> FALSE, failed_tx |-> FALSE, tx_buffer |-> << >>]
  /\ at_begin = None
  /\ hist = << >>
  /\ LsmIdle
  /\ NotRouted
  /\ call = [kind |-> "none"]
  /\ mvcc = [used |-> FALSE]
  /\ tn = [used |-> FALSE]
  /\ LaterIdle

\* what no action of the connection changes
varsConnFrame == << varsLsm, routed, call, mvcc, tn, varsLater >>

\* what a message that touches neither the session nor the router leaves
varsConnSession == << router, user_ctx, in_tx, failed_tx, tx_buffer, at_begin >>

\* read_startup and the code up to the next read
ConnStartup(startup) ==
  /\ conn.phase = "startup"
  /\ \E r \in { handshake_startup(conn.auth_enabled, startup) } :
       /\ conn' = [conn EXCEPT !.phase = r.phase, !.sent = r.sent,
                               !.startup = Some(startup), !.permit = r.phase # "closed"]
       /\ out' = r.sent
  /\ lastMsg' = [type |-> "Startup"]
  /\ UNCHANGED << varsConnSession, prev, hist, varsConnFrame >>

\* the read of the password message and the code up to the loop
ConnPassword(msg) ==
  /\ conn.phase = "password"
  /\ \E r \in { handshake_password(conn.startup.v.user.v, msg) } :
       /\ conn' = [conn EXCEPT !.phase = r.phase, !.sent = conn.sent \o r.sent,
                               !.password = Some(msg), !.permit = r.phase # "closed"]
       /\ out' = r.sent
       /\ user_ctx' = r.user_ctx
  /\ lastMsg' = [type |-> "PasswordRead"]
  /\ UNCHANGED << router, in_tx, failed_tx, tx_buffer, at_begin, prev, hist, varsConnFrame >>

\* the loop is reading and the client has a message to send
ConnReady == conn.used /\ conn.phase = "ready" /\ ~conn.eof

ConnQuery(sql) == ConnReady /\ ClientQuery(sql)

ConnSync == ConnReady /\ ClientSync

ConnUnsupported(code) == ConnReady /\ ClientUnsupported(code)

\* count_param_placeholders: the query texts of the model hold no
\* placeholder ($n or ?)
count_param_placeholders(query) == 0

\* FrontendMessage::Parse: the parameter types of the message, or else one
\* type 25 (text) for each placeholder of the query
ConnParse(statement_name, query, param_oids) ==
  /\ ConnReady
  /\ \E oids \in { IF param_oids = << >>
                    THEN [i \in 1..count_param_placeholders(query) |-> 25]
                    ELSE param_oids } :
       conn' = [conn EXCEPT !.prepared_statements =
                  MapInsert(@, statement_name, [query |-> query, param_oids |-> oids])]
  /\ out' = << MsgPlain("ParseComplete") >>
  /\ lastMsg' = [type |-> "Parse", name |-> statement_name]
  /\ prev' = Session
  /\ hist' = << >>
  /\ UNCHANGED << varsConnSession, varsConnFrame >>

\* FrontendMessage::Bind (no parameter values)
ConnBind(portal_name, statement_name) ==
  /\ ConnReady
  /\ \E resolved \in { Resolve(conn.prepared_statements, statement_name) } :
       IF resolved.some
       THEN /\ conn' = [conn EXCEPT !.portals =
                          MapInsert(@, portal_name, [sql_template |-> resolved.v.query,
                                                     param_values |-> << >>]),
                                    !.closed = @ \ { portal_name }]
            /\ out' = << MsgPlain("BindComplete") >>
       ELSE /\ conn' = [conn EXCEPT !.closed = @ \ { portal_name }]
            /\ out' = << MsgErrorResponse(UnknownName("prepared statement", statement_name)) >>
  /\ lastMsg' = [type |-> "Bind", name |-> statement_name]
  /\ prev' = Session
  /\ hist' = << >>
  /\ UNCHANGED << varsConnSession, varsConnFrame >>

\* the reply of Describe for the text sql: RowDescription when it is one
\* SELECT that handle_query, run on copies of the session, answers with
\* columns; NoData otherwise
describe_sql(cl, sql, user_, in_tx_, failed_tx_, now_) ==
  IF ~sql.parses THEN [out |-> << MsgPlain("NoData") >>, cl |-> cl]
  ELSE IF Len(sql.statements) = 1 /\ sql.statements[1].kind = "Query"
  THEN Bind(handle_query(cl, sql, None, user_, in_tx_, failed_tx_, << >>, now_), LAMBDA r :
         IF r.ok /\ r.st.items # << >> /\ r.st.items[1].item = "Rows"
                 /\ r.st.items[1].result.columns # << >>
         THEN [out |-> << MsgRowDescription(r.st.items[1].result.columns) >>, cl |-> r.st.cl]
         ELSE [out |-> << MsgPlain("NoData") >>, cl |-> r.st.cl])
  ELSE [out |-> << MsgPlain("NoData") >>, cl |-> cl]

\* FrontendMessage::Describe
ConnDescribe(target, name) ==
  /\ ConnReady
  /\ \E result \in { IF target = "Statement"
                     THEN Bind(Resolve(conn.prepared_statements, name), LAMBDA ps :
                            IF ps.some
                            THEN Some([sql |-> ps.v.query, param_oids |-> ps.v.param_oids])
                            ELSE None)
                     ELSE Bind(Resolve(conn.portals, name), LAMBDA p :
                            IF p.some
                            THEN Some([sql |-> render_sql(p.v), param_oids |-> << >>])
                            ELSE None) } :
       IF result.some
       THEN \E d \in { describe_sql(router, result.v.sql, user_ctx, in_tx, failed_tx, now) } :
              /\ out' = (IF target = "Statement" /\ result.v.param_oids # << >>
                         THEN << MsgParameterDescription(result.v.param_oids) >>
                         ELSE << >>) \o d.out
              /\ router' = d.cl
       ELSE /\ out' = << MsgErrorResponse(UnknownName(IF target = "Statement" THEN "prepared statement"
                                                   ELSE "portal", name)) >>
            /\ router' = router
  /\ lastMsg' = [type |-> "Describe", target |-> target, name |-> name]
  /\ prev' = Session
  /\ hist' = << >>
  /\ UNCHANGED << conn, user_ctx, in_tx, failed_tx, tx_buffer, at_begin, varsConnFrame >>

\* the messages Execute writes for the answer r of handle_query, as they
\* would be if Execute ended its answer like a simple Query
execute_reply_WithReady(r, max_rows) ==
  (IF r.ok THEN write_query_response(r.st.items, max_rows)
   ELSE << MsgErrorResponse(r.err) >>)
    \o << MsgReadyForQuery(connection_ready_state(r.st.in_tx, r.st.failed_tx)) >>

\* the messages Execute writes for the answer r of handle_query
execute_reply(r, max_rows) ==
  IF r.ok THEN write_query_response(r.st.items, max_rows)
  ELSE << MsgErrorResponse(r.err) >>

\* FrontendMessage::Execute
ConnExecute(portal_name, max_rows) ==
  /\ ConnReady
  /\ \E portal \in { Resolve(conn.portals, portal_name) } :
       IF portal.some
       THEN \E sql \in { render_sql(portal.v) } :
              /\ RowsReserved + InsertedRows(tx_buffer) + InsertedRows(sql.statements) <= MaxRows
              /\ Len(tx_buffer) + Mutations(sql.statements) <= MaxBuffer
              /\ \E r \in { handle_query(router, sql, None, user_ctx, in_tx, failed_tx,
                                         tx_buffer, now) } :
                   /\ router' = r.st.cl
                   /\ in_tx' = r.st.in_tx
                   /\ failed_tx' = r.st.failed_tx
                   /\ tx_buffer' = r.st.tx_buffer
                   /\ out' = execute_reply(r, max_rows)
                   /\ at_begin' = NextAtBegin(sql, r.st.in_tx, r.st.cl.shards)
       ELSE /\ out' = << MsgErrorResponse(UnknownName("portal", portal_name)) >>
            /\ UNCHANGED << router, in_tx, failed_tx, tx_buffer, at_begin >>
  /\ lastMsg' = [type |-> "Execute", portal_name |-> portal_name, max_rows |-> max_rows]
  /\ prev' = Session
  /\ hist' = << >>
  /\ UNCHANGED << conn, user_ctx, varsConnFrame >>

\* FrontendMessage::Close
ConnClose(target, name) ==
  /\ ConnReady
  /\ conn' = IF target = "Statement"
             THEN [conn EXCEPT !.prepared_statements = MapRemove(@, name)]
             ELSE [conn EXCEPT !.portals = MapRemove(@, name), !.closed = @ \cup { name }]
  /\ out' = << MsgPlain("CloseComplete") >>
  /\ lastMsg' = [type |-> "Close", target |-> target, name |-> name]
  /\ prev' = Session
  /\ hist' = << >>
  /\ UNCHANGED << varsConnSession, varsConnFrame >>

\* FrontendMessage::Flush, and FrontendMessage::Terminate ('X'), which falls
\* into the `_ => {}` arm: nothing is written and the loop goes on
ConnIgnored(type) ==
  /\ ConnReady
  /\ out' = << >>
  /\ lastMsg' = [type |-> type]
  /\ prev' = Session
  /\ hist' = << >>
  /\ UNCHANGED << conn, varsConnSession, varsConnFrame >>

\* the client closes its end of the stream between two messages
ClientCloses ==
  /\ ConnReady
  /\ conn' = [conn EXCEPT !.eof = TRUE]
  /\ UNCHANGED << varsSession, varsConnFrame >>

\* read_message at end of stream: read_u8 fails, Ok(Terminate) is returned
\* at once and the `_ => {}` arm ignores it
ConnReadEof ==
  /\ conn.used /\ conn.phase = "ready" /\ conn.eof
  /\ conn' = [conn EXCEPT !.turn = 1 - @]
  /\ out' = << >>
  /\ lastMsg' = [type |-> "Terminate"]
  /\ prev' = Session
  /\ hist' = << >>
  /\ UNCHANGED << varsConnSession, varsConnFrame >>

\* read_message fails after the type byte (the stream ends inside a
\* message): the loop breaks and the task ends
ConnReadError ==
  /\ ConnReady
  /\ conn' = [conn EXCEPT !.phase = "closed", !.permit = FALSE, !.eof = TRUE]
  /\ out' = << >>
  /\ lastMsg' = [type |-> "ReadError"]
  /\ prev' = Session
  /\ hist' = << >>
  /\ UNCHANGED << varsConnSession, varsConnFrame >>

\* nothing arrives within idle_timeout: ErrorResponse, the loop breaks
ConnIdleTimeout ==
  /\ ConnReady
  /\ conn.idle_timeout
  /\ conn' = [conn EXCEPT !.phase = "closed", !.permit = FALSE]
  /\ out' = << MsgErrorResponse("idle timeout") >>
  /\ lastMsg' = [type |-> "IdleTimeout"]
  /\ prev' = Session
  /\ hist' = << >>
  /\ UNCHANGED << varsConnSession, varsConnFrame >>

NextConn ==
  \/ \E startup \in Startups : ConnStartup(startup)
  \/ \E msg \in PasswordReads : ConnPassword(msg)
  \/ \E sql \in ConnSqls : ConnQuery(sql)
  \/ ConnSync
  \/ \E code \in UnsupportedCodes : ConnUnsupported(code)
  \/ \E query \in ParseSqls, param_oids \in ConnParamOids : ConnParse("s", query, param_oids)
  \/ \E statement_name \in { "s", "x" } : ConnBind("p", statement_name)
  \/ \E d \in { << "Statement", "s" >>, << "Statement", "x" >>,
                << "Portal", "p" >>, << "Portal", "x" >> } : ConnDescribe(d[1], d[2])
  \/ \E portal_name \in { "p", "x" }, max_rows \in -1..MaxFetch :
       ConnExecute(portal_name, max_rows)
  \/ \E c \in { << "Statement", "s" >>, << "Portal", "p" >> } : ConnClose(c[1], c[2])
  \/ \E type \in { "Flush", "Terminate" } : ConnIgnored(type)
  \/ ClientCloses
  \/ ConnReadEof
  \/ ConnReadError
  \/ ConnIdleTimeout

SpecConn == InitConn /\ [][NextConn]_vars

\* The task of the connection is scheduled: when a read can complete at
\* once (end of stream) the loop performs it
SpecConnLive == InitConn /\ [][NextConn]_vars /\ WF_vars(ConnReadEof)


\* ---------------------------------------------------------------- C17
TypesOf(msgs) == [i \in 1..Len(msgs) |-> msgs[i].type]

NumOfType(msgs, ty) == Len(OfType(msgs, ty))

\* the messages handled by the loop of handle_client
LoopMessages ==
  { "Query", "Sync", "Unsupported", "Parse", "Bind", "Describe", "Execute", "Close",
    "Flush", "Terminate" }

StartupRead == conn.startup.some /\ conn.startup.v.ok

\* the only credentials the configuration accepts
GoodCredentials ==
  /\ conn.startup.v.user = Some("alice")
  /\ conn.password = Some([type |-> "Password", password |-> "pw"])

\* auth is enabled and the startup packet names no user, or the message read
\* next is not a Password, or the credentials are rejected
HandshakeFailed ==
  /\ conn.auth_enabled
  /\ StartupRead
  /\ \/ ~conn.startup.v.user.some
     \/ conn.password.some /\ ~GoodCredentials

HandshakePassed ==
  /\ StartupRead
  /\ conn.auth_enabled => GoodCredentials

QueryAnswer ==
  handle_query(router, lastMsg'.sql, None, user_ctx, in_tx, failed_tx, tx_buffer, now)

ResultMessages == { "RowDescription", "DataRow", "CommandComplete" }

\* the step reads a frontend message and handles it (the client closing its
\* end of the stream is no such step)
MessageHandled == conn'.eof = conn.eof

C18_Step ==
  MessageHandled =>
  /\ lastMsg'.type = "Query" =>
       /\ out' # << >>
       /\ out'[Len(out')].type = "ReadyForQuery"
       /\ NumOfType(out', "ReadyForQuery") = 1
       /\ NumOfType(out', "ErrorResponse") = (IF QueryAnswer.ok THEN 0 ELSE 1)
       /\ \A i \in 1..(Len(out') - 1) :
            out'[i].type \in ResultMessages \cup { "ErrorResponse" }
       /\ \A i \in 1..(Len(out') - 1) :
            out'[i].type = "ErrorResponse" => i = Len(out') - 1
  /\ lastMsg'.type \in { "Parse", "Bind", "Describe", "Execute", "Close", "Flush" } =>
       NumOfType(out', "ReadyForQuery") = 0
  /\ lastMsg'.type = "Sync" =>
       /\ Len(out') = 1
       /\ out'[1].type = "ReadyForQuery"

\* C18: a Query is answered by result messages, one ErrorResponse exactly
\* when handling it raised an error, and one ReadyForQuery as the last
\* message; Parse, Bind, Describe, Execute, Close and Flush write no
\* ReadyForQuery; Sync writes exactly one
C18_Responses == [][C18_Step]_vars

\* an Execute that raised an error was answered by one ErrorResponse alone
C18_Witness ==
  /\ lastMsg.type = "Execute"
  /\ lastMsg.portal_name \in DOMAIN conn.portals
  /\ TypesOf(out) = << "ErrorResponse" >>

\* ---------------------------------------------------------------- C20
\* the rows a SELECT of the table finds in the state before the step
RowsBefore ==
  Bind(router.shards[<< 0, 0 >>], LAMBDA sh :
    fetch_table_rows(sh, ConnTable, None, snapshot(sh.clock)))

LeastOf(a, b) == IF a < b THEN a ELSE b

C20_Step ==
  (/\ MessageHandled
   /\ lastMsg'.type = "Execute"
   /\ lastMsg'.portal_name \in DOMAIN conn.portals
   /\ conn.portals[lastMsg'.portal_name].sql_template = SqlOf(<< StmtSelect(ConnTable) >>)
   /\ NumOfType(out', "ErrorResponse") = 0) =>
    /\ lastMsg'.max_rows > 0 =>
         /\ NumOfType(out', "DataRow") <= lastMsg'.max_rows
         /\ NumOfType(out', "DataRow") = LeastOf(lastMsg'.max_rows, Len(RowsBefore))
    /\ lastMsg'.max_rows = 0 => NumOfType(out', "DataRow") = Len(RowsBefore)
    /\ out'[Len(out')].type = "CommandComplete"
    /\ NumOfType(out', "CommandComplete") = 1
    /\ out'[1].type = "RowDescription"
    /\ \A i \in 1..NumOfType(out', "DataRow") :
         out'[i + 1] = MsgDataRow(data_row_values(RowsBefore[i]))

\* C20: Execute of a SELECT portal writes the first max_rows rows when
\* max_rows > 0 and every row when max_rows = 0, and ends with
\* CommandComplete
C20_MaxRows == [][C20_Step]_vars

\* an Execute with max_rows = 1 on a table of two rows wrote one DataRow
C20_Witness ==
  /\ lastMsg.type = "Execute"
  /\ lastMsg.max_rows = 1
  /\ Len(fetch_table_rows(router.shards[<< 0, 0 >>], ConnTable, None,
                          snapshot(router.shards[<< 0, 0 >>].clock))) = 2
  /\ TypesOf(out) = << "RowDescription", "DataRow", "CommandComplete" >>

\* ---------------------------------------------------------------- C19
ConnClosed == conn.phase = "closed" /\ ~conn.permit

\* C19: once the client has closed its end of the stream (after a Terminate
\* or without one) the loop of the connection eventually exits and the
\* permit is released
C19_ReachesClosed == (conn.used /\ conn.eof) ~> ConnClosed

\* ---------------------------------------------------------------------
\* Specification SpecExt: the extended query protocol of one connection
\* that has passed the handshake of a server without authentication.
\* Statements and portals are named or unnamed ("").
\* ---------------------------------------------------------------------

ExtStatementNames == { "", "s" }

ExtPortalNames == { "", "p" }

\* Query texts of simple queries: they create the table, fail, and leave
\* the Failed state
ExtSqls == { SqlGarbage, SqlOf(<< StmtCreate(ConnTable) >>), SqlOf(<< StmtRollback >>) }

\* handle_client of a server with auth.enabled = false after read_startup
\* has succeeded: the loop is about to read its first message
InitExt ==
  /\ conn = [used |-> TRUE, auth_enabled |-> FALSE, idle_timeout |-> FALSE,
             phase |-> "ready", permit |-> TRUE,
             startup |-> Some([ok |-> TRUE, user |-> None]), password |-> None,
             sent |-> HandshakeOk,
             prepared_statements |-> << >>, portals |-> << >>,
             closed |-> {}, eof |-> FALSE, turn |-> 0]
  /\ router = RouterNew(1, 1, TRUE, 1024)
  /\ user_ctx = None
  /\ in_tx = FALSE
  /\ failed_tx = FALSE
  /\ tx_buffer = << >>
  /\ out = HandshakeOk
  /\ lastMsg = [type |-> "Startup"]
  /\ prev = [in_tx |-> FALSE, failed_tx |-> FALSE, tx_buffer |-> << >>]
  /\ at_begin = None
  /\ hist = << >>
  /\ LsmIdle
  /\ NotRouted
  /\ call = [kind |-> "none"]
  /\ mvcc = [used |-> FALSE]
  /\ tn = [used |-> FALSE]
  /\ LaterIdle

NextExt ==
  \/ \E sql \in ExtSqls : ConnQuery(sql)
  \/ ConnSync
  \/ \E statement_name \in ExtStatementNames, query \in ParseSqls :
       ConnParse(statement_name, query, << >>)
  \/ \E portal_name \in ExtPortalNames, statement_name \in ExtStatementNames :
       ConnBind(portal_name, statement_name)
  \/ \E target \in { "Statement", "Portal" }, name \in { "", "s", "p" } :
       ConnDescribe(target, name)
  \/ \E portal_name \in ExtPortalNames : ConnExecute(portal_name, 0)
  \/ \E target \in { "Statement", "Portal" }, name \in { "", "s", "p" } :
       ConnClose(target, name)

SpecExt == InitExt /\ [][NextExt]_vars

\* ---------------------------------------------------------------------
\* C21
\* ---------------------------------------------------------------------

\* the session and the router are as they were before the step
NothingExecuted ==
  /\ router' = router
  /\ in_tx' = in_tx
  /\ failed_tx' = failed_tx
  /\ tx_buffer' = tx_buffer

\* the name is no key of the map the Close message addresses
Dropped(c, target, name) ==
  IF target = "Statement" THEN name \notin DOMAIN c.prepared_statements
  ELSE name \notin DOMAIN c.portals

C21_Step ==
  /\ lastMsg'.type = "Close" =>
       /\ out' = << MsgPlain("CloseComplete") >>
       /\ Dropped(conn', lastMsg'.target, lastMsg'.name)
  /\ (lastMsg'.type = "Execute" /\ lastMsg'.portal_name \in conn.closed) =>
       /\ out' = << MsgErrorResponse(UnknownName("portal", lastMsg'.portal_name)) >>
       /\ NothingExecuted

\* C21: a Close message is answered with exactly CloseComplete and
\* removes the statement or portal it names; an Execute of a portal name
\* that was closed and named by no Bind since is answered with exactly the
\* "unknown portal" ErrorResponse and leaves the router and the session
\* untouched, whatever other statements and portals the session holds.
C21_Close == [][C21_Step]_vars

\* the part of C21 about the Close message itself
C21_CloseStep ==
  lastMsg'.type = "Close" =>
    /\ out' = << MsgPlain("CloseComplete") >>
    /\ Dropped(conn', lastMsg'.target, lastMsg'.name)

C21_CloseDrops == [][C21_CloseStep]_vars

\* the part of C21 about Execute in a session without unnamed portal
C21_NoUnnamedStep ==
  (lastMsg'.type = "Execute" /\ lastMsg'.portal_name \in conn.closed
     /\ "" \notin DOMAIN conn.portals) =>
    /\ out' = << MsgErrorResponse(UnknownName("portal", lastMsg'.portal_name)) >>
    /\ NothingExecuted

C21_NoUnnamed == [][C21_NoUnnamedStep]_vars

\* ---------------------------------------------------------------------
\* C22
\* ---------------------------------------------------------------------

\* the text is one SELECT statement
SingleSelect(sql) ==
  sql.parses /\ Len(sql.statements) = 1 /\ sql.statements[1].kind = "Query"

\* the message types the decision table gives for a prepared statement
DescribeTable(ps) ==
  (IF ps.param_oids # << >> THEN << "ParameterDescription" >> ELSE << >>)
    \o (IF SingleSelect(ps.query) THEN << "RowDescription" >> ELSE << "NoData" >>)

\* the step handles Describe(Statement, name) for a statement of the map
DescribesKnown ==
  /\ lastMsg'.type = "Describe" /\ MessageHandled
  /\ lastMsg'.target = "Statement"
  /\ lastMsg'.name \in DOMAIN conn.prepared_statements

\* the step handles a Describe whose name no Parse or Bind has ever used
DescribesUnknown ==
  /\ lastMsg'.type = "Describe" /\ MessageHandled
  /\ lastMsg'.name = "x"

C22_Step ==
  /\ DescribesKnown =>
       /\ TypesOf(out') = DescribeTable(conn.prepared_statements[lastMsg'.name])
       /\ (conn.prepared_statements[lastMsg'.name].param_oids # << >> =>
             out'[1] = MsgParameterDescription(
                         conn.prepared_statements[lastMsg'.name].param_oids))
  /\ DescribesUnknown => TypesOf(out') = << "ErrorResponse" >>
  /\ (lastMsg'.type = "Describe" /\ MessageHandled) =>
       /\ NumOfType(out', "DataRow") = 0
       /\ in_tx' = in_tx /\ failed_tx' = failed_tx /\ tx_buffer' = tx_buffer

\* C22: Describe of a known prepared statement writes ParameterDescription
\* first exactly when the statement has a parameter type, then
\* RowDescription when its SQL is a single SELECT and NoData otherwise;
\* Describe of a name never parsed or bound writes an ErrorResponse;
\* Describe writes no DataRow and leaves the transaction state and the
\* transaction buffer unchanged.
C22_Describe == [][C22_Step]_vars

\* the SELECT of the statement can be answered: the session is not Failed,
\* the principal may read, the table exists
Answerable(ps) ==
  /\ ~failed_tx
  /\ (user_ctx.some => user_ctx.v.can_read)
  /\ ps.query.statements[1].table.v \in DOMAIN router.shards[<< 0, 0 >>].catalog

C22_AnswerableStep ==
  /\ DescribesKnown =>
       Bind(conn.prepared_statements[lastMsg'.name], LAMBDA ps :
         TypesOf(out') =
           (IF ps.param_oids # << >> THEN << "ParameterDescription" >> ELSE << >>)
             \o (IF SingleSelect(ps.query) /\ Answerable(ps)
                 THEN << "RowDescription" >> ELSE << "NoData" >>))
  /\ DescribesUnknown => TypesOf(out') = << "ErrorResponse" >>
  /\ (lastMsg'.type = "Describe" /\ MessageHandled) =>
       /\ NumOfType(out', "DataRow") = 0
       /\ in_tx' = in_tx /\ failed_tx' = failed_tx /\ tx_buffer' = tx_buffer

\* the decision table of C22 with RowDescription only for a SELECT that
\* can be answered
C22_Answerable == [][C22_AnswerableStep]_vars

\* ---------------------------------------------------------------------
\* C23
\* ---------------------------------------------------------------------

\* the step handles a Query message of one statement, or of a text that
\* does not parse, in a session that is not Failed, and the statement fails
FailsOutsideFailed ==
  /\ lastMsg'.type = "Query"
  /\ SingleStatement(lastMsg') \/ ~lastMsg'.sql.parses
  /\ ~failed_tx
  /\ Failed(out')

C23_Step ==
  FailsOutsideFailed =>
    /\ NumOfType(out', "ErrorResponse") = 1
    /\ in_tx => (failed_tx' /\ ReadyByte(out') = "E")
    /\ ~in_tx => (~failed_tx' /\ ~in_tx' /\ ReadyByte(out') = "I")

\* C23: a failing statement of a simple query puts the session into Failed
\* state when, and only when, the session was InTransaction: failing while
\* Idle writes one ErrorResponse, then ReadyForQuery('I'), and leaves the
\* session Idle, so that the next statement runs without ROLLBACK.
C23_FailedOnlyInTransaction == [][C23_Step]_vars

C23_InTransactionStep ==
  (FailsOutsideFailed /\ in_tx) =>
    /\ NumOfType(out', "ErrorResponse") = 1
    /\ failed_tx' /\ ReadyByte(out') = "E"

\* the half of C23 about a statement failing inside a transaction
C23_InTransaction == [][C23_InTransactionStep]_vars

\* ---------------------------------------------------------------------
\* Specification SpecWal: one wal.log that is appended to, torn by a crash
\* in the middle of an append, reset, and read back by Wal::replay.
\* ---------------------------------------------------------------------

\* the largest number of complete records in the file
MaxWalRecords == 2

\* Nothing of the engine, session, router and connection specifications
\* has happened
EarlierIdle ==
  /\ LsmIdle
  /\ SessionIdle
  /\ NotRouted
  /\ call = [kind |-> "none"]
  /\ mvcc = [used |-> FALSE]
  /\ tn = [used |-> FALSE]
  /\ conn = [used |-> FALSE]

varsEarlier == << varsLsm, varsSession, routed, call, mvcc, tn, conn >>

\* the operations, keys and values of the records
WalOps == { WalOpPut, WalOpDelete }

WalKeys == { << 107 >> }

WalValues == { << >>, << 7 >> }

\* walx.file     : the bytes of wal.log
\* walx.appended : history: the records whose append completed since the
\*                 file was created or last reset
\* walx.torn     : history: a crash has cut the last append short; .cut is
\*                 the number of bytes of that record that reached the file
\* walx.result   : what the last replay returned
InitWal ==
  /\ walx = [used |-> TRUE, file |-> << >>, appended |-> << >>, torn |-> FALSE, cut |-> 0,
             result |-> None, op |-> "open"]
  /\ EarlierIdle
  /\ cat = [used |-> FALSE]
  /\ actor = [used |-> FALSE]
  /\ srv = [used |-> FALSE]
  /\ LastIdle

varsWalFrame == << varsEarlier, cat, actor, srv, varsLast >>

\* Wal::append runs to its end
WalxAppend(op, key, value) ==
  /\ ~walx.torn
  /\ Len(walx.appended) < MaxWalRecords
  /\ walx' = [walx EXCEPT !.file = WalAppend(@, op, key, value),
                          !.appended = Append(@, [op |-> op, key |-> key, value |-> value]),
                          !.result = None, !.op = "append"]
  /\ UNCHANGED varsWalFrame

\* the process stops inside Wal::append: only the first cut bytes of the
\* record are in the file
WalxTornAppend(op, key, value, cut) ==
  /\ ~walx.torn
  /\ cut \in 1..(Len(WalRecord(op, key, value)) - 1)
  /\ walx' = [walx EXCEPT !.file = @ \o SubSeq(WalRecord(op, key, value), 1, cut),
                          !.torn = TRUE, !.cut = cut,
                          !.result = None, !.op = "torn"]
  /\ UNCHANGED varsWalFrame

\* Wal::reset
WalxReset ==
  /\ ~walx.torn
  /\ walx.op # "reset"
  /\ walx' = [walx EXCEPT !.file = WalReset, !.appended = << >>,
                          !.result = None, !.op = "reset"]
  /\ UNCHANGED varsWalFrame

\* Wal::replay of the file
WalxReplay ==
  /\ walx.op # "replay"
  /\ walx' = [walx EXCEPT !.result = Some(WalReplay(walx.file)), !.op = "replay"]
  /\ UNCHANGED varsWalFrame

NextWal ==
  \/ \E op \in WalOps, key \in WalKeys, value \in WalValues : WalxAppend(op, key, value)
  \/ \E op \in WalOps, key \in WalKeys, value \in WalValues :
       \E cut \in 1..(Len(WalRecord(op, key, value)) - 1) : WalxTornAppend(op, key, value, cut)
  \/ WalxReset
  \/ WalxReplay

SpecWal == InitWal /\ [][NextWal]_vars

\* ---------------------------------------------------------------------
\* C24
\* ---------------------------------------------------------------------

Replayed == walx.used /\ walx.op = "replay"

\* C24: replay succeeds and returns, in append order, exactly the records
\* whose append completed since the last reset, also when they are
\* followed by a record cut short at any byte; right after a reset it
\* returns the empty list.
C24_Replay ==
  Replayed =>
    /\ walx.result.v.ok
    /\ walx.result.v.entries = walx.appended

\* the same for a file without torn record, or with a record cut inside
\* its four-byte length prefix
C24_CompleteOrShortPrefix ==
  (Replayed /\ (walx.torn => walx.cut < 4)) =>
    /\ walx.result.v.ok
    /\ walx.result.v.entries = walx.appended

\* a record cut after its length prefix makes replay fail
C24_TornFails ==
  (Replayed /\ walx.torn /\ walx.cut >= 4) => ~walx.result.v.ok

\* ---------------------------------------------------------------------
\* Specification SpecCatalog: the catalog of one shard replica, written by
\* CREATE TABLE statements of several schemas for the same names.
\* ---------------------------------------------------------------------

\* Catalog::new
CatalogNew == << >>

\* Catalog::create_table, as it would be if it replaced the schema stored
\* under the name before reporting the error
create_table_Replaces(tables, schema) ==
  IF schema.name \in DOMAIN tables
  THEN [ok |-> FALSE, err |-> << "catalog error", "table already exists", schema.name >>,
        tables |-> MapInsert(tables, schema.name, schema)]
  ELSE [ok |-> TRUE, err |-> << >>, tables |-> MapInsert(tables, schema.name, schema)]

\* Catalog::create_table
create_table(tables, schema) ==
  IF schema.name \in DOMAIN tables
  THEN [ok |-> FALSE, err |-> << "catalog error", "table already exists", schema.name >>,
        tables |-> tables]
  ELSE [ok |-> TRUE, err |-> << >>, tables |-> MapInsert(tables, schema.name, schema)]

\* Catalog::get_table
get_table(tables, name) == MapGet(tables, name)

\* SqlExecutor::exec_create_table on the catalog: the schema of the plan
\* is handed to create_table, the result has no columns and no rows
exec_create_table_plan(tables, plan) ==
  Bind(create_table(tables, [name |-> plan.table, columns |-> plan.columns,
                             primary_key |-> plan.primary_key]), LAMBDA r :
    [ok |-> r.ok, err |-> r.err, tables |-> r.tables,
     result |-> SqlResult(<< >>, << >>, 0)])

\* the CREATE TABLE plans: two names, two column lists, with and without
\* primary key
CatalogPlans ==
  [table : { "t", "u" },
   columns : { << [name |-> "id", data_type |-> "INT"] >>,
               << [name |-> "id", data_type |-> "INT"],
                  [name |-> "name", data_type |-> "TEXT"] >> },
   primary_key : { None, Some("id") }]

\* cat.tables : Catalog.tables
\* cat.first  : history: for each name the schema of the first CREATE
\*              TABLE of that name that succeeded
\* cat.last   : history: the last call, the catalog before it, its result
InitCatalog ==
  /\ cat = [used |-> TRUE, tables |-> CatalogNew, first |-> << >>, last |-> [kind |-> "none"]]
  /\ EarlierIdle
  /\ walx = [used |-> FALSE]
  /\ actor = [used |-> FALSE]
  /\ srv = [used |-> FALSE]
  /\ LastIdle

varsCatalogFrame == << varsEarlier, walx, actor, srv, varsLast >>

\* one CREATE TABLE statement executed on the shard
CatalogCreateTable(plan) ==
  /\ \E r \in { exec_create_table_plan(cat.tables, plan) } :
       cat' = [cat EXCEPT
                 !.tables = r.tables,
                 !.first = IF r.ok /\ plan.table \notin DOMAIN cat.first
                           THEN MapInsert(@, plan.table,
                                  [name |-> plan.table, columns |-> plan.columns,
                                   primary_key |-> plan.primary_key])
                           ELSE @,
                 !.last = [kind |-> "create_table", plan |-> plan, before |-> cat.tables,
                           ok |-> r.ok, err |-> r.err]]
  /\ UNCHANGED varsCatalogFrame

\* a statement looks the table up
CatalogGetTable(name) ==
  /\ cat.last.kind # "get_table"
  /\ cat' = [cat EXCEPT !.last = [kind |-> "get_table", name |-> name,
                                  found |-> get_table(cat.tables, name)]]
  /\ UNCHANGED varsCatalogFrame

NextCatalog ==
  \/ \E plan \in CatalogPlans : CatalogCreateTable(plan)
  \/ \E name \in { "t", "u" } : CatalogGetTable(name)

SpecCatalog == InitCatalog /\ [][NextCatalog]_vars

\* ---------------------------------------------------------------------
\* C25
\* ---------------------------------------------------------------------

\* C25: a CREATE TABLE of a name the catalog holds returns a catalog error
\* and leaves the catalog as it was; at all times every name of the
\* catalog maps to the schema of the first CREATE TABLE of that name that
\* succeeded, and a look-up returns that schema.
C25_FirstSchemaStays ==
  cat.used =>
    /\ DOMAIN cat.tables = DOMAIN cat.first
    /\ \A name \in DOMAIN cat.tables : cat.tables[name] = cat.first[name]
    /\ cat.last.kind = "create_table" =>
         IF cat.last.plan.table \in DOMAIN cat.last.before
         THEN /\ ~cat.last.ok
              /\ cat.last.err[1] = "catalog error"
              /\ cat.tables = cat.last.before
         ELSE cat.last.ok
    /\ cat.last.kind = "get_table" =>
         cat.last.found = MapGet(cat.first, cat.last.name)

\* a CREATE TABLE with another schema for an existing name was refused
C25_Witness ==
  /\ cat.used
  /\ cat.last.kind = "create_table"
  /\ cat.last.plan.table \in DOMAIN cat.last.before
  /\ cat.last.before[cat.last.plan.table].columns # cat.last.plan.columns
  /\ ~cat.last.ok

\* ---------------------------------------------------------------------
\* C26
\* ---------------------------------------------------------------------

\* the step is a call of the engine (the clock does not move)
EngineCall(op) == now' = now /\ lastOp' = op

\* the entry a put or delete of this step has written
WrittenNow == CHOOSE w \in written' \ written : TRUE

\* the memtable of e with the entry of this step put into it
MemWith(e, w) ==
  MemTablePut(e.memtable, encode_versioned_key(w.key, w.version), encode_value(w.value))

\* e2 is e1 after a flush of the memtable mt: one more run, the last of
\* the list, whose file holds exactly the entries of mt in key order; the
\* runs before it are the list of e1; memtable and WAL are empty
FlushedFrom(e1, mt, e2) ==
  /\ Len(e2.sstables) = Len(e1.sstables) + 1
  /\ SubSeq(e2.sstables, 1, Len(e1.sstables)) = e1.sstables
  /\ SstLoad(e2.files[e2.sstables[Len(e2.sstables)]]) = MemEntries(mt)
  /\ e2.memtable = MemTableNew
  /\ e2.wal = << >>

\* e2 has the runs and the files of e1
NoFlush(e1, e2) == e2.sstables = e1.sstables /\ e2.files = e1.files

C26_Step ==
  /\ EngineCall("flush") =>
       IF DOMAIN lsm.memtable.entries # {}
       THEN FlushedFrom(lsm, lsm.memtable, lsm')
       ELSE lsm' = lsm
  /\ EngineCall("delete") =>
       /\ NoFlush(lsm, lsm')
       /\ lsm'.memtable = MemWith(lsm, WrittenNow)
  /\ EngineCall("put") =>
       IF MemWith(lsm, WrittenNow).bytes >= lsm.memtable_max_bytes
       THEN FlushedFrom(lsm, MemWith(lsm, WrittenNow), lsm')
       ELSE NoFlush(lsm, lsm') /\ lsm'.memtable = MemWith(lsm, WrittenNow)

\* C26: flush() on a non-empty memtable adds one run at the end of the run
\* list, holding exactly the memtable's entries, and leaves the memtable
\* and the WAL empty; flush() on an empty memtable changes nothing;
\* delete() never flushes; put() flushes exactly when the memtable's byte
\* count has reached memtable_max_bytes after the entry was added.
C26_Flush == [][C26_Step]_vars

\* a put has filled the memtable and flushed it behind an older run
C26_Witness ==
  /\ lastOp = "put"
  /\ lsm.memtable = MemTableNew
  /\ Len(lsm.sstables) >= 2

\* ---------------------------------------------------------------------
\* Specification SpecCompact: one engine whose caller chooses the version
\* of every put, so that a versioned key can be written again with another
\* value (a shard's version clock starts again at 1 with every start of
\* the server, while its data directory is kept).
\* ---------------------------------------------------------------------

\* the largest version of a put, the number of puts, and the longest run
\* list before a flush
MaxCompactVersion == 1

MaxCompactPuts == 3

MaxRuns == 3

CompactValues == { << 97 >>, << 98 >> }

InitCompact ==
  /\ lsm = EngineNew(TRUE, 1024)
  /\ now = 0
  /\ nextVersion = 1
  /\ written = {}
  /\ reopened = FALSE
  /\ lastOp = "open"
  /\ router = RouterNew(1, 1, TRUE, 1024)
  /\ user_ctx = None
  /\ SessionStart
  /\ NotRouted
  /\ MoreIdle

\* engine.put(key, value, version) with a version of the caller's choice
CompactPut(key, value, version) ==
  /\ Cardinality(written) < MaxCompactPuts
  /\ [key |-> key, version |-> version, value |-> Some(value)] \notin written
  /\ lsm' = EnginePut(lsm, key, value, version, now)
  /\ written' = written \cup {[key |-> key, version |-> version, value |-> Some(value)]}
  /\ lastOp' = "put"
  /\ UNCHANGED << now, nextVersion, reopened, varsSession, routed, varsMore >>

\* engine.flush()
CompactFlush ==
  /\ Len(lsm.sstables) < MaxRuns
  /\ LsmFlush

NextCompact ==
  \/ \E key \in UserKeys, value \in CompactValues, version \in 1..MaxCompactVersion :
       CompactPut(key, value, version)
  \/ CompactFlush
  \/ LsmCompact
  \/ LsmTick

SpecCompact == InitCompact /\ [][NextCompact]_vars

\* ---------------------------------------------------------------------
\* C27
\* ---------------------------------------------------------------------

\* the entries of the i-th run of the list of e, read from its file
RunEntries(e, i) == SstLoad(e.files[e.sstables[i]])

\* the versioned keys of the i-th run
RunKeys(e, i) == { RunEntries(e, i)[j].key : j \in 1..Len(RunEntries(e, i)) }

\* the versioned keys of all runs
AllRunKeys(e) == UNION { RunKeys(e, i) : i \in 1..Len(e.sstables) }

\* the value of key k in the run that arrived last among those holding k
LatestValue(e, k) ==
  LET i == CHOOSE x \in 1..Len(e.sstables) :
             /\ k \in RunKeys(e, x)
             /\ \A y \in (x + 1)..Len(e.sstables) : k \notin RunKeys(e, y)
      j == CHOOSE z \in 1..Len(RunEntries(e, i)) : RunEntries(e, i)[z].key = k
  IN RunEntries(e, i)[j].value

\* the union of the runs of e, in key order, latest run winning
UnionOfRuns(e) ==
  Bind(SortedKeys(AllRunKeys(e)), LAMBDA ks :
    [n \in 1..Len(ks) |-> [key |-> ks[n], value |-> LatestValue(e, ks[n])]])

C27_Step ==
  EngineCall("compact") =>
    IF Len(lsm.sstables) >= 2
    THEN /\ Len(lsm'.sstables) = 1
         /\ RunEntries(lsm', 1) = UnionOfRuns(lsm)
         /\ lsm'.memtable = lsm.memtable /\ lsm'.wal = lsm.wal
    ELSE lsm' = lsm

\* C27: compact() of two or more runs leaves a run list of one run whose
\* entries are exactly the union of the versioned keys of the runs it
\* started from, each with the value of the latest run holding it;
\* compact() of fewer than two runs changes nothing.
C27_Compact == [][C27_Step]_vars

\* a compaction has merged runs of different keys, and a run file it read
\* holds another value for one of the keys than the merged run
C27_Witness ==
  /\ lastOp = "compact"
  /\ Len(lsm.sstables) = 1
  /\ lsm.sstables[1].compacted
  /\ Len(RunEntries(lsm, 1)) >= 2
  /\ \E p \in DOMAIN lsm.files :
       /\ ~p.compacted
       /\ \E i \in 1..Len(SstLoad(lsm.files[p])), j \in 1..Len(RunEntries(lsm, 1)) :
            /\ SstLoad(lsm.files[p])[i].key = RunEntries(lsm, 1)[j].key
            /\ SstLoad(lsm.files[p])[i].value # RunEntries(lsm, 1)[j].value

\* ---------------------------------------------------------------------
\* C30
\* ---------------------------------------------------------------------

\* the paths of the run list of e
RunPaths(e) == { e.sstables[i] : i \in 1..Len(e.sstables) }

\* the step is a flush that wrote a run: flush() or a put that flushed
FlushStep ==
  /\ now' = now
  /\ lastOp' \in { "flush", "put" }
  /\ Len(lsm'.sstables) = Len(lsm.sstables) + 1

\* the runs that stay in the list keep the bytes of their file
RunsUnchanged ==
  \A p \in RunPaths(lsm) \cap RunPaths(lsm') : lsm'.files[p] = lsm.files[p]

C30_Step ==
  /\ FlushStep => lsm'.sstables[Len(lsm'.sstables)] \notin RunPaths(lsm)
  /\ RunsUnchanged

\* C30: every flush writes a run file distinct from the file of every run
\* already in the run list, and the file of a run does not change while
\* the run is in the list, also when flushes and compactions happen within
\* one millisecond of the clock.
C30_RunsImmutable == [][C30_Step]_vars

\* the same for steps whose file name is not in the directory yet
C30_FreshNameStep ==
  (/\ [compacted |-> FALSE, ts |-> chrono_suffix(now)] \notin DOMAIN lsm.files
   /\ [compacted |-> TRUE, ts |-> chrono_suffix(now)] \notin DOMAIN lsm.files)
    => C30_Step

C30_FreshName == [][C30_FreshNameStep]_vars

\* ---------------------------------------------------------------------
\* Specification SpecActor: the actor of one shard replica (Shard::start),
\* its bounded inbox and the tasks that call ShardReplica::execute.
\* ---------------------------------------------------------------------

\* the capacity of the inbox (mpsc::channel(128) in the code), the number
\* of calling tasks and the number of requests of a behaviour
InboxCapacity == 2

MaxSenders == 3

MaxRequests == 3

Senders == 1..MaxSenders

ActorTable == << 116 >>

ActorStatements ==
  { StmtCreate(ActorTable), StmtInsert(ActorTable, << << 1 >> >>), StmtSelect(ActorTable) }

\* actor.sh        : the replica the actor owns (executor and storage)
\* actor.reqs      : history: request i is reqs[i], its sender and statement
\* actor.inbox     : the requests in the channel, oldest first
\* actor.waiting   : the requests whose send waits for room, in the order
\*                   in which the channel will admit them
\* actor.busy      : the request the actor has received and is executing
\* actor.pc        : the position of each calling task in execute:
\*                   "idle", "blocked" (in send), "awaiting" (in rx.await)
\* actor.accepted  : history: the requests in the order they entered the inbox
\* actor.executed  : history: the requests in the order the actor ran them
\* actor.responses : history: every response sent, with its request
\* actor.blocked   : history: the requests whose send had to wait
InitActor ==
  /\ actor = [used |-> TRUE, sh |-> ShardNew(TRUE, 1024), reqs |-> << >>,
              inbox |-> << >>, waiting |-> << >>, busy |-> None,
              pc |-> [p \in Senders |-> "idle"],
              accepted |-> << >>, executed |-> << >>, responses |-> << >>, blocked |-> {}]
  /\ EarlierIdle
  /\ walx = [used |-> FALSE]
  /\ cat = [used |-> FALSE]
  /\ srv = [used |-> FALSE]
  /\ LastIdle

varsActorFrame == << varsEarlier, walx, cat, srv, varsLast >>

\* ShardReplica::execute up to the send: the request enters the inbox when
\* there is room and no earlier send is waiting, else the task waits
ActorSend(p, stmt) ==
  /\ actor.pc[p] = "idle"
  /\ Len(actor.reqs) < MaxRequests
  /\ \E id \in { Len(actor.reqs) + 1 } :
       IF Len(actor.inbox) < InboxCapacity /\ actor.waiting = << >>
       THEN actor' = [actor EXCEPT !.reqs = Append(@, [sender |-> p, stmt |-> stmt]),
                                   !.inbox = Append(@, id),
                                   !.accepted = Append(@, id),
                                   !.pc[p] = "awaiting"]
       ELSE actor' = [actor EXCEPT !.reqs = Append(@, [sender |-> p, stmt |-> stmt]),
                                   !.waiting = Append(@, id),
                                   !.blocked = @ \cup { id },
                                   !.pc[p] = "blocked"]
  /\ UNCHANGED varsActorFrame

\* the channel has room again: the send that has waited longest completes
ActorAdmit ==
  /\ actor.waiting # << >>
  /\ Len(actor.inbox) < InboxCapacity
  /\ actor' = [actor EXCEPT !.waiting = Tail(@),
                            !.inbox = Append(@, Head(actor.waiting)),
                            !.accepted = Append(@, Head(actor.waiting)),
                            !.pc[actor.reqs[Head(actor.waiting)].sender] = "awaiting"]
  /\ UNCHANGED varsActorFrame

\* rx.recv() as it would be if it returned the newest request of the inbox
ActorRecv_Newest ==
  /\ actor.used
  /\ ~actor.busy.some
  /\ actor.inbox # << >>
  /\ actor' = [actor EXCEPT !.busy = Some(actor.inbox[Len(actor.inbox)]),
                            !.inbox = SubSeq(@, 1, Len(@) - 1)]
  /\ UNCHANGED varsActorFrame

\* rx.recv() in the loop of the actor: the oldest request of the inbox
ActorRecv ==
  /\ actor.used
  /\ ~actor.busy.some
  /\ actor.inbox # << >>
  /\ actor' = [actor EXCEPT !.busy = Some(Head(actor.inbox)), !.inbox = Tail(@)]
  /\ UNCHANGED varsActorFrame

\* the body of the loop: executor.execute, then the result is sent on the
\* request's oneshot channel and rx.await of the caller returns
ActorRespond ==
  /\ actor.used
  /\ actor.busy.some
  /\ \E r \in { execute(actor.sh, actor.reqs[actor.busy.v].stmt, None, now) } :
       actor' = [actor EXCEPT !.sh = r.sh,
                              !.busy = None,
                              !.executed = Append(@, actor.busy.v),
                              !.responses = Append(@, [id |-> actor.busy.v, ok |-> r.ok,
                                                       result |-> r.result, err |-> r.err]),
                              !.pc[actor.reqs[actor.busy.v].sender] = "idle"]
  /\ UNCHANGED varsActorFrame

NextActor ==
  \/ \E p \in Senders, stmt \in ActorStatements : ActorSend(p, stmt)
  \/ ActorAdmit
  \/ ActorRecv
  \/ ActorRespond

SpecActor == InitActor /\ [][NextActor]_vars

\* The tasks are scheduled: the actor goes on when it can receive or has a
\* request in hand, and a send whose turn has come completes
SpecActorLive ==
  /\ InitActor
  /\ [][NextActor]_vars
  /\ WF_vars(ActorAdmit)
  /\ WF_vars(ActorRecv)
  /\ WF_vars(ActorRespond)

\* ---------------------------------------------------------------------
\* C28
\* ---------------------------------------------------------------------

\* the statements of the requests ids run one after the other on sh: the
\* replica at the end and the result of each
RECURSIVE RunInOrder(_, _, _, _)
RunInOrder(sh, reqs, ids, results) ==
  IF ids = << >> THEN [sh |-> sh, results |-> results]
  ELSE Bind(execute(sh, reqs[Head(ids)].stmt, None, 0), LAMBDA r :
         RunInOrder(r.sh, reqs, Tail(ids),
                    Append(results, [id |-> Head(ids), ok |-> r.ok,
                                     result |-> r.result, err |-> r.err])))

SeqToSet(s) == { s[i] : i \in 1..Len(s) }

\* executed in the order received, one response per executed request, and
\* replica and responses are those of running the statements one at a time
\* in that order
C28_InOrder ==
  actor.used =>
    /\ actor.executed = SubSeq(actor.accepted, 1, Len(actor.executed))
    /\ Len(actor.responses) = Len(actor.executed)
    /\ \A i \in 1..Len(actor.responses) : actor.responses[i].id = actor.executed[i]
    /\ Cardinality(SeqToSet(actor.executed)) = Len(actor.executed)
    /\ Bind(RunInOrder(ShardNew(TRUE, 1024), actor.reqs, actor.executed, << >>), LAMBDA run :
         actor.sh = run.sh /\ actor.responses = run.results)

Responded(id) == \E i \in 1..Len(actor.responses) : actor.responses[i].id = id

\* C28: the actor runs the requests of its inbox one at a time in the order
\* in which they were received and sends exactly one response for each; a
\* send that waits for room in the inbox is eventually admitted, and every
\* request that entered the inbox eventually gets its response.
C28_Actor ==
  /\ []C28_InOrder
  /\ \A id \in 1..MaxRequests :
       /\ (actor.used /\ id \in SeqToSet(actor.waiting)) ~> (id \in SeqToSet(actor.accepted))
       /\ (actor.used /\ id \in SeqToSet(actor.accepted)) ~> Responded(id)

\* a request whose send had to wait has been answered, after another one
C28_Witness ==
  /\ actor.used
  /\ \E id \in actor.blocked : Responded(id)
  /\ Len(actor.responses) >= 2

\* ---------------------------------------------------------------------
\* Specification SpecAccept: the accept loop of run, its connection-limit
\* semaphore and the session tasks it spawns.
\* ---------------------------------------------------------------------

\* the largest server.max_connections and the number of connections that
\* arrive in a behaviour
MaxConnections == 2

MaxSessions == 4

\* the session tasks that have started and not ended
LiveTasks(s) == { i \in 1..Len(s.tasks) : s.tasks[i].state \in { "tls", "serving" } }

\* srv.max_connections, srv.tls : the configuration
\* srv.permits : the permits the semaphore has left
\* srv.loop    : where the loop of run stands: "accept" (in the select),
\*               "acquire" (a socket accepted, in acquire_owned),
\*               "stopped" (ctrl_c, the loop was left)
\* srv.tasks   : the session tasks spawned so far: .state is "tls" (in the
\*               TLS handshake), "serving" (in handle_client) or "ended",
\*               .permit tells whether the task owns a permit
InitAccept ==
  /\ \E m \in 0..MaxConnections, tls \in BOOLEAN :
       srv = [used |-> TRUE, max_connections |-> m, tls |-> tls, permits |-> m,
              loop |-> "accept", tasks |-> << >>]
  /\ EarlierIdle
  /\ walx = [used |-> FALSE]
  /\ cat = [used |-> FALSE]
  /\ actor = [used |-> FALSE]
  /\ LastIdle

varsAcceptFrame == << varsEarlier, walx, cat, actor, varsLast >>

\* listener.accept() returns a socket
SrvAccept ==
  /\ srv.used /\ srv.loop = "accept"
  /\ Len(srv.tasks) < MaxSessions
  /\ srv' = [srv EXCEPT !.loop = "acquire"]
  /\ UNCHANGED varsAcceptFrame

\* the spawn as it would be without waiting for a permit
SrvAcquire_NoPermit ==
  /\ srv.used /\ srv.loop = "acquire"
  /\ srv' = [srv EXCEPT !.tasks = Append(@, [state |-> IF srv.tls THEN "tls" ELSE "serving",
                                              permit |-> FALSE]),
                        !.loop = "accept"]
  /\ UNCHANGED varsAcceptFrame

\* acquire_owned() returns a permit and the session task is spawned with it
SrvAcquire ==
  /\ srv.used /\ srv.loop = "acquire"
  /\ srv.permits > 0
  /\ srv' = [srv EXCEPT !.permits = @ - 1,
                        !.tasks = Append(@, [state |-> IF srv.tls THEN "tls" ELSE "serving",
                                             permit |-> TRUE]),
                        !.loop = "accept"]
  /\ UNCHANGED varsAcceptFrame

\* acceptor.accept(socket) of task i: handle_client starts, or the task
\* logs the error and ends, dropping its permit
SrvTlsAccept(i, ok) ==
  /\ srv.used /\ i \in 1..Len(srv.tasks)
  /\ srv.tasks[i].state = "tls"
  /\ srv' = IF ok THEN [srv EXCEPT !.tasks[i].state = "serving"]
            ELSE [srv EXCEPT !.tasks[i] = [state |-> "ended", permit |-> FALSE],
                             !.permits = @ + (IF srv.tasks[i].permit THEN 1 ELSE 0)]
  /\ UNCHANGED varsAcceptFrame

\* handle_client of task i returns: the task ends and _permit is dropped
SrvSessionEnds(i) ==
  /\ srv.used /\ i \in 1..Len(srv.tasks)
  /\ srv.tasks[i].state = "serving"
  /\ srv' = [srv EXCEPT !.tasks[i] = [state |-> "ended", permit |-> FALSE],
                        !.permits = @ + (IF srv.tasks[i].permit THEN 1 ELSE 0)]
  /\ UNCHANGED varsAcceptFrame

\* ctrl_c while the loop is in its select
SrvShutdown ==
  /\ srv.used /\ srv.loop = "accept"
  /\ srv' = [srv EXCEPT !.loop = "stopped"]
  /\ UNCHANGED varsAcceptFrame

NextAccept ==
  \/ SrvAccept
  \/ SrvAcquire
  \/ \E i \in 1..MaxSessions, ok \in BOOLEAN : SrvTlsAccept(i, ok)
  \/ \E i \in 1..MaxSessions : SrvSessionEnds(i)
  \/ SrvShutdown

SpecAccept == InitAccept /\ [][NextAccept]_vars

\* ---------------------------------------------------------------------
\* C29
\* ---------------------------------------------------------------------

\* C29: at most max_connections session tasks are alive at a time; a task
\* is alive exactly while it owns a permit, taken before it was spawned
\* and given back when it ends, so the permits left and the tasks alive
\* always add up to max_connections.
C29_ConnectionLimit ==
  srv.used =>
    /\ Cardinality(LiveTasks(srv)) <= srv.max_connections
    /\ srv.permits + Cardinality(LiveTasks(srv)) = srv.max_connections
    /\ \A i \in 1..Len(srv.tasks) : srv.tasks[i].permit <=> i \in LiveTasks(srv)

\* an accepted socket waits for a permit while max_connections sessions run
\* and an earlier session has ended
C29_Witness ==
  /\ srv.used
  /\ srv.loop = "acquire"
  /\ srv.max_connections >= 1
  /\ Cardinality(LiveTasks(srv)) = srv.max_connections
  /\ \E i \in 1..Len(srv.tasks) : srv.tasks[i].state = "ended"

\* ---------------------------------------------------------------------
\* C31
\* ---------------------------------------------------------------------

\* caller p holds the value of a completed clock access of kind op
Got(p, op) == mvcc.callers[p].pc = "got" /\ mvcc.callers[p].op = op

\* no other caller is inside a call
AloneInCall(p) == \A q \in Callers \ { p } : mvcc.callers[q].pc = "idle"

\* the step in which the snapshot() of caller p loads the clock while no
\* other call is in flight and a version has been issued
LoadsAlone(p) ==
  /\ mvcc.callers[p].pc = "invoked" /\ mvcc.callers[p].op = "snapshot"
  /\ mvcc'.callers[p].pc = "got"
  /\ AloneInCall(p)
  /\ mvcc.given # << >>

C31_Step ==
  (mvcc.used /\ mvcc'.used) =>
    \A p \in Callers :
      /\ Got(p, "next_version")' => mvcc'.callers[p].ret > mvcc'.callers[p].snap_seen
      /\ LoadsAlone(p) => mvcc'.callers[p].ret <= mvcc.given[Len(mvcc.given)]

\* C31: a version handed out by a next_version() that was called after a
\* snapshot() had returned S is strictly greater than S; and a snapshot()
\* taken while no other call is in flight does not exceed the version
\* issued last.
C31_SnapshotStable == [][C31_Step]_vars

C31_AtLeastStep ==
  (mvcc.used /\ mvcc'.used) =>
    \A p \in Callers :
      /\ Got(p, "next_version")' => mvcc'.callers[p].ret >= mvcc'.callers[p].snap_seen
      /\ LoadsAlone(p) => mvcc'.callers[p].ret = mvcc.given[Len(mvcc.given)] + 1

\* what holds instead: such a version is at least S, and such a snapshot
\* is the version issued last plus one
C31_AtLeast == [][C31_AtLeastStep]_vars

\* ---------------------------------------------------------------------
\* C32
\* ---------------------------------------------------------------------

\* the entries of the runs of e that belong to the user key `key`
RunVersionsOf(e, key) ==
  { vk \in AllRunKeys(e) : is_key_match(vk, key, MaxVersion + 1) }

\* every read gives the same result in the engine after the step as before
SameReads ==
  \A k \in UserKeys, s \in Snapshots : EngineGet(lsm', k, s) = EngineGet(lsm, k, s)

C32_Step == EngineCall("compact") => SameReads

\* C32: for every key and snapshot, get returns the same result right
\* after a compact() as right before it.
C32_CompactInvisible == [][C32_Step]_vars

C32_OneVersionStep ==
  (EngineCall("compact")
     /\ \A k \in UserKeys : Cardinality(RunVersionsOf(lsm, k)) <= 1) => SameReads

\* what holds instead: compact() leaves every read as it was when the runs
\* together hold at most one version of each key
C32_OneVersion == [][C32_OneVersionStep]_vars

\* ======================================================================
\* Specification SpecRace: several tasks calling one engine at once.  The
\* steps of a call are the stretches between two lock acquisitions or file
\* operations of engine.rs (each `.lock().await` and each file `.await`
\* is a point where another task may run).
\* ======================================================================
MaxWriters == 2

\* the tasks calling put, delete and flush; the compaction task is apart
Writers == 1..MaxWriters

TaskIdle == [pc |-> "idle"]

\* race.mem_lock  : the task holding self.memtable across awaits (0: none)
\* race.tasks     : each writer's position in its call and its locals
\* race.compactor : the compaction task's position and locals
\* race.pushed    : history: the paths pushed on the run list by a flush
\* race.merged    : history: the paths read by a compaction that completed
\* The clock has advanced by a millisecond whenever a file is written, so
\* no two files get one name.
InitRace ==
  /\ \E lim \in MemLimits : lsm = EngineNew(TRUE, lim)
  /\ now = 0
  /\ nextVersion = 1
  /\ written = {}
  /\ reopened = FALSE
  /\ lastOp = "open"
  /\ SessionIdle
  /\ NotRouted
  /\ call = [kind |-> "none"]
  /\ mvcc = [used |-> FALSE]
  /\ tn = [used |-> FALSE]
  /\ conn = [used |-> FALSE]
  /\ walx = [used |-> FALSE]
  /\ cat = [used |-> FALSE]
  /\ actor = [used |-> FALSE]
  /\ srv = [used |-> FALSE]
  /\ repl = [used |-> FALSE]
  /\ race = [used |-> TRUE, mem_lock |-> 0, tasks |-> [t \in Writers |-> TaskIdle],
             compactor |-> TaskIdle, pushed |-> {}, merged |-> {}]

varsRaceFrame ==
  << reopened, lastOp, varsSession, routed, call, mvcc, tn, conn, walx, cat, actor, srv, repl >>

\* the call of task t returns Ok
RaceReturn(t, r) ==
  /\ race' = [r EXCEPT !.tasks[t] = TaskIdle]
  /\ written' = IF race.tasks[t].kind \in { "put", "delete" }
                THEN written \cup { race.tasks[t].w } ELSE written

\* a task calls put(key, value, version) or delete(key, version) with the
\* next version: the encoded key and value are computed
RaceWrite(t, kind, key, value) ==
  /\ race.used /\ race.tasks[t].pc = "idle"
  /\ nextVersion <= MaxVersion
  /\ race' = [race EXCEPT !.tasks[t] =
                [pc |-> "wal", kind |-> kind,
                 encoded_key |-> encode_versioned_key(key, nextVersion),
                 encoded_value |-> encode_value(IF kind = "put" THEN Some(value) ELSE None),
                 w |-> [key |-> key, version |-> nextVersion,
                        value |-> IF kind = "put" THEN Some(value) ELSE None]]]
  /\ nextVersion' = nextVersion + 1
  /\ UNCHANGED << lsm, now, written, varsRaceFrame >>

\* self.wal.lock().await.append(op, key, value).await
RaceWalAppend(t) ==
  /\ race.used /\ race.tasks[t].pc = "wal"
  /\ lsm' = [lsm EXCEPT !.wal =
               IF lsm.wal_enabled
               THEN WalAppend(lsm.wal,
                              IF race.tasks[t].kind = "put" THEN WalOpPut ELSE WalOpDelete,
                              race.tasks[t].encoded_key, race.tasks[t].encoded_value)
               ELSE lsm.wal]
  /\ race' = [race EXCEPT !.tasks[t].pc = "mem"]
  /\ UNCHANGED << now, nextVersion, written, varsRaceFrame >>

\* self.memtable.lock().await.put(key, value); delete returns after it
RaceMemPut(t) ==
  /\ race.used /\ race.tasks[t].pc = "mem" /\ race.mem_lock = 0
  /\ lsm' = [lsm EXCEPT !.memtable =
               MemTablePut(lsm.memtable, race.tasks[t].encoded_key, race.tasks[t].encoded_value)]
  /\ IF race.tasks[t].kind = "put"
     THEN race' = [race EXCEPT !.tasks[t].pc = "check"] /\ written' = written
     ELSE RaceReturn(t, race)
  /\ UNCHANGED << now, nextVersion, varsRaceFrame >>

\* put: if self.memtable.lock().await.approximate_bytes() >= max, flush
RaceCheck(t) ==
  /\ race.used /\ race.tasks[t].pc = "check" /\ race.mem_lock = 0
  /\ IF lsm.memtable.bytes >= lsm.memtable_max_bytes
     THEN race' = [race EXCEPT !.tasks[t].pc = "flush_lock"] /\ written' = written
     ELSE RaceReturn(t, race)
  /\ UNCHANGED << lsm, now, nextVersion, varsRaceFrame >>

\* a task calls flush()
RaceFlush(t) ==
  /\ race.used /\ race.tasks[t].pc = "idle"
  /\ race' = [race EXCEPT !.tasks[t] = [pc |-> "flush_lock", kind |-> "flush"]]
  /\ UNCHANGED << lsm, now, nextVersion, written, varsRaceFrame >>

\* flush: let mut mem = self.memtable.lock().await; return if empty, else
\* collect the entries; the lock is held until flush returns
RaceFlushLock(t) ==
  /\ race.used /\ race.tasks[t].pc = "flush_lock" /\ race.mem_lock = 0
  /\ IF DOMAIN lsm.memtable.entries = {}
     THEN RaceReturn(t, race)
     ELSE /\ race' = [race EXCEPT !.mem_lock = t,
                                  !.tasks[t] = [kind |-> race.tasks[t].kind,
                                                w |-> IF race.tasks[t].kind = "put"
                                                      THEN race.tasks[t].w ELSE None,
                                                pc |-> "flush_write",
                                                entries |-> MemEntries(lsm.memtable)]]
          /\ written' = written
  /\ UNCHANGED << lsm, now, nextVersion, varsRaceFrame >>

\* flush: SSTable::write_with(sst-<ms>.db, entries).await
RaceFlushWrite(t) ==
  /\ race.used /\ race.tasks[t].pc = "flush_write"
  /\ \E sst_path \in { [compacted |-> FALSE, ts |-> chrono_suffix(now)] } :
       /\ lsm' = [lsm EXCEPT !.files = WriteFile(lsm.files, sst_path,
                                                 SstWrite(race.tasks[t].entries))]
       /\ race' = [race EXCEPT !.tasks[t] = [kind |-> race.tasks[t].kind,
                                             w |-> race.tasks[t].w,
                                             pc |-> "flush_push", sst_path |-> sst_path]]
  /\ now' = now + 1
  /\ UNCHANGED << nextVersion, written, varsRaceFrame >>

\* flush: self.sstables.lock().await.push(..); mem.clear()
RaceFlushPush(t) ==
  /\ race.used /\ race.tasks[t].pc = "flush_push"
  /\ lsm' = [lsm EXCEPT !.sstables = Append(@, race.tasks[t].sst_path),
                        !.memtable = MemTableClear]
  /\ race' = [race EXCEPT !.tasks[t].pc = "flush_reset",
                          !.pushed = @ \cup { race.tasks[t].sst_path }]
  /\ UNCHANGED << now, nextVersion, written, varsRaceFrame >>

\* flush: self.wal.lock().await.reset().await; the memtable guard drops
RaceFlushReset(t) ==
  /\ race.used /\ race.tasks[t].pc = "flush_reset"
  /\ lsm' = [lsm EXCEPT !.wal = IF lsm.wal_enabled THEN WalReset ELSE lsm.wal]
  /\ RaceReturn(t, [race EXCEPT !.mem_lock = 0])
  /\ UNCHANGED << now, nextVersion, varsRaceFrame >>

\* compact: let tables = self.sstables.lock().await.clone(); return if
\* fewer than two
RaceCompactClone ==
  /\ race.used /\ race.compactor.pc = "idle"
  /\ race' = IF Len(lsm.sstables) < 2 THEN race
             ELSE [race EXCEPT !.compactor = [pc |-> "compact_write", tables |-> lsm.sstables]]
  /\ UNCHANGED << lsm, now, nextVersion, written, varsRaceFrame >>

\* compact: compact_tables(sst-compacted-<ms>.db, tables).await
RaceCompactWrite ==
  /\ race.used /\ race.compactor.pc = "compact_write"
  /\ \E output \in { [compacted |-> TRUE, ts |-> chrono_suffix(now)] } :
       /\ lsm' = [lsm EXCEPT !.files =
                    WriteFile(lsm.files, output,
                              compact_tables([lsm EXCEPT !.sstables = race.compactor.tables]))]
       /\ race' = [race EXCEPT !.compactor = [pc |-> "compact_replace",
                                              tables |-> race.compactor.tables,
                                              output |-> output]]
  /\ now' = now + 1
  /\ UNCHANGED << nextVersion, written, varsRaceFrame >>

\* compact: *self.sstables.lock().await = vec![SSTable::new(output)]
RaceCompactReplace ==
  /\ race.used /\ race.compactor.pc = "compact_replace"
  /\ lsm' = [lsm EXCEPT !.sstables = << race.compactor.output >>]
  /\ race' = [race EXCEPT !.compactor = TaskIdle,
                          !.merged = @ \cup SeqToSet(race.compactor.tables)]
  /\ UNCHANGED << now, nextVersion, written, varsRaceFrame >>

NextRace ==
  \/ \E t \in Writers, k \in UserKeys : RaceWrite(t, "put", k, PayloadAt(nextVersion))
  \/ \E t \in Writers, k \in UserKeys : RaceWrite(t, "delete", k, << >>)
  \/ \E t \in Writers : RaceWalAppend(t)
  \/ \E t \in Writers : RaceMemPut(t)
  \/ \E t \in Writers : RaceCheck(t)
  \/ \E t \in Writers : RaceFlush(t)
  \/ \E t \in Writers : RaceFlushLock(t)
  \/ \E t \in Writers : RaceFlushWrite(t)
  \/ \E t \in Writers : RaceFlushPush(t)
  \/ \E t \in Writers : RaceFlushReset(t)
  \/ RaceCompactClone
  \/ RaceCompactWrite
  \/ RaceCompactReplace

SpecRace == InitRace /\ [][NextRace]_vars

\* ---------------------------------------------------------------------
\* C33
\* ---------------------------------------------------------------------

\* the records the WAL file gives back
WalEntries(e) == SeqToSet(WalReplay(e.wal).entries)

\* every memtable entry has its record in the WAL
MemInWal(e) ==
  \A k \in DOMAIN e.memtable.entries :
    \E r \in WalEntries(e) : r.key = k /\ r.value = e.memtable.entries[k]

\* the versioned keys of the files of the data directory
FileKeys(e) ==
  UNION { { SstLoad(e.files[p])[j].key : j \in 1..Len(SstLoad(e.files[p])) } :
          p \in DOMAIN e.files }

\* the write w is in a run file or in the WAL
Recoverable(e, w) ==
  \/ encode_versioned_key(w.key, w.version) \in FileKeys(e)
  \/ \E r \in WalEntries(e) : r.key = encode_versioned_key(w.key, w.version)

\* C33: with the WAL enabled, in every state of every interleaving of put,
\* delete and flush calls every memtable entry is recorded in the WAL, and
\* every put or delete that returned Ok is in a run file or in the WAL.
C33_Durable ==
  (race.used /\ lsm.wal_enabled) =>
    /\ MemInWal(lsm)
    /\ \A w \in written : Recoverable(lsm, w)

\* what holds for calls made one after the other
C33_Sequential == (~race.used /\ lsm.wal_enabled /\ ~reopened) => MemInWal(lsm)

\* ---------------------------------------------------------------------
\* C34
\* ---------------------------------------------------------------------

\* the step in which a compact() replaces the run list and returns
CompactCompletes ==
  /\ race.used
  /\ race.compactor.pc = "compact_replace"
  /\ race'.compactor.pc = "idle"

\* the versioned keys written by the flushes so far
PushedKeys(e) ==
  UNION { { SstLoad(e.files[p])[j].key : j \in 1..Len(SstLoad(e.files[p])) } :
          p \in race.pushed }

\* every run a flush pushed is in the list of e or was merged, and every
\* entry a flush wrote is in a run of the list of e
NoRunLost(e, merged) ==
  /\ \A p \in race.pushed : p \in SeqToSet(e.sstables) \/ p \in merged
  /\ PushedKeys(e) \subseteq AllRunKeys(e)

C34_Step == CompactCompletes => NoRunLost(lsm', race'.merged)

\* C34: when compact() completes, every run that a flush appended to the
\* run list is still in the list or was merged into the compacted run, and
\* every flushed entry is in a run of the list.
C34_NoRunLost == [][C34_Step]_vars

C34_QuietStep ==
  (CompactCompletes /\ lsm.sstables = race.compactor.tables)
    => NoRunLost(lsm', race'.merged)

\* what holds instead: no run is lost by a compact() during which no flush
\* appended a run
C34_Quiet == [][C34_QuietStep]_vars

\* ---------------------------------------------------------------------
\* C35
\* ---------------------------------------------------------------------

\* a restart of an engine whose memtable is empty (everything was flushed)
ReopenFlushed ==
  /\ ~race.used
  /\ lastOp' = "reopen" /\ lsm' = EngineOpen(lsm)
  /\ DOMAIN lsm.memtable.entries = {}

\* the runs of the list of e1 are in the list of e2 in the same order
SameOrder(e1, e2) ==
  \A i \in 1..Len(e1.sstables), j \in 1..Len(e1.sstables) :
    (i < j /\ e1.sstables[i] # e1.sstables[j]) =>
      \E a \in 1..Len(e2.sstables), b \in 1..Len(e2.sstables) :
        a < b /\ e2.sstables[a] = e1.sstables[i] /\ e2.sstables[b] = e1.sstables[j]

\* the newest run of e1 is the newest run of e2
SameNewest(e1, e2) ==
  e1.sstables # << >> =>
    /\ e2.sstables # << >>
    /\ e2.sstables[Len(e2.sstables)] = e1.sstables[Len(e1.sstables)]

C35_Step == ReopenFlushed => (SameOrder(lsm, lsm') /\ SameNewest(lsm, lsm') /\ SameReads)

\* C35: after flushes and compactions and a restart, the run list rebuilt
\* by open() holds the runs in creation order, the newest last, and every
\* get(k, s) returns what it returned before the restart.
C35_ReopenKeepsRecency == [][C35_Step]_vars

\* no compaction has written a file into the data directory
NoCompactedFile(e) == \A p \in DOMAIN e.files : ~p.compacted

C35_NoCompactionStep ==
  (ReopenFlushed /\ NoCompactedFile(lsm))
    => (SameOrder(lsm, lsm') /\ SameNewest(lsm, lsm') /\ SameReads)

\* what holds instead: the restart keeps order and reads when no
\* compaction has run
C35_NoCompaction == [][C35_NoCompactionStep]_vars

\* ---------------------------------------------------------------------
\* C36
\* ---------------------------------------------------------------------

\* the call that just returned is an execute_plan answered with the quorum
\* error
QuorumRejected(c) == c.kind = "execute_plan" /\ ~c.ok /\ c.err = QuorumError

C36_Step ==
  QuorumRejected(call') =>
    \A r \in Replicas(router) :
      router'.shards[<< call'.plan.shard_id, r >>] = router.shards[<< call'.plan.shard_id, r >>]

\* C36: when execute_plan returns "replication quorum not reached", no
\* replica of the shard, the leader included, has changed its rows, its
\* catalog or its row-id counter.
C36_RejectedLeavesNoEffect == [][C36_Step]_vars

C36_UnhealthyStep ==
  QuorumRejected(call') =>
    \A r \in Replicas(router) \ { call'.leader } :
      ~is_healthy(router, call'.plan.shard_id, r) =>
        router'.shards[<< call'.plan.shard_id, r >>] = router.shards[<< call'.plan.shard_id, r >>]

\* what holds instead: a rejected write has not changed the replicas that
\* were unhealthy
C36_UnhealthyUntouched == [][C36_UnhealthyStep]_vars

\* ======================================================================
\* Specification SpecReplicas: several sessions writing at once to one
\* shard of healthy replicas.  Each session runs execute_plan; the steps
\* are the awaits of ShardReplica::execute (the request is in the inbox of
\* a replica's actor, the session waits for the answer).
\* ======================================================================
MaxReplWriters == 2

MaxReplWrites == 3

MaxReplReplicas == 3

ReplSessions == 1..MaxReplWriters

ReplTable == << 116 >>

\* INSERT INTO t VALUES (s): each session writes its own value
ReplStatement(s) == StmtInsert(ReplTable, << << s >> >>)

ReplSessionIdle == [pc |-> "idle"]

\* the first healthy replica from `from` on that is not the leader, or
\* replication_factor when the loop over group.replicas is at its end
NextFollower(cl, shard_id, leader, from) ==
  Bind({ r \in Replicas(cl) : r >= from /\ r # leader /\ is_healthy(cl, shard_id, r) },
       LAMBDA S : IF S = {} THEN cl.replication_factor
                  ELSE CHOOSE r \in S : \A o \in S : r <= o)

\* router         : the cluster; CREATE TABLE t has run on every replica
\* repl.inbox     : the requests in each replica's channel, oldest first
\* repl.sessions  : each session's position in execute_plan and its locals
\* repl.executed  : history: the sessions whose statement each replica
\*                  executed, in order
\* repl.started   : history: the number of execute_plan calls started
\* repl.overlap   : history: a call started while another was in flight
InitReplicas ==
  /\ \E rf \in 2..MaxReplReplicas :
       /\ router = execute_plan(RouterNew(1, rf, TRUE, 1024),
                                [shard_id |-> 0, stmt |-> StmtCreate(ReplTable)], None, 0).cl
       /\ repl = [used |-> TRUE,
                  inbox |-> [r \in 0..(rf - 1) |-> << >>],
                  sessions |-> [s \in ReplSessions |-> ReplSessionIdle],
                  executed |-> [r \in 0..(rf - 1) |-> << >>],
                  started |-> 0, overlap |-> FALSE]
  /\ LsmIdle
  /\ user_ctx = None
  /\ SessionStart
  /\ NotRouted
  /\ call = [kind |-> "none"]
  /\ mvcc = [used |-> FALSE]
  /\ tn = [used |-> FALSE]
  /\ conn = [used |-> FALSE]
  /\ walx = [used |-> FALSE]
  /\ cat = [used |-> FALSE]
  /\ actor = [used |-> FALSE]
  /\ srv = [used |-> FALSE]
  /\ race = [used |-> FALSE]

varsReplicasFrame ==
  << varsLsm, user_ctx, in_tx, failed_tx, tx_buffer, out, lastMsg, prev, at_begin, hist,
     routed, call, mvcc, tn, conn, walx, cat, actor, srv, race >>

\* ShardReplica::execute up to `rx.await`: the request is in the inbox
ReplSend(r, s, replica_id) ==
  [r EXCEPT !.inbox[replica_id] = Append(@, [session |-> s, stmt |-> ReplStatement(s)])]

\* execute_plan up to the first await: the leader is selected and the
\* statement sent to it
ReplExecutePlan(s) ==
  /\ repl.used /\ repl.sessions[s].pc = "idle"
  /\ repl.started < MaxReplWrites
  /\ \E sel \in { select_leader(router, 0) } :
       /\ router' = sel.cl
       /\ repl' = [ReplSend(repl, s, sel.leader) EXCEPT
                     !.sessions[s] = [pc |-> "wait", leader |-> sel.leader, at |-> sel.leader,
                                      acked |-> 1, resp |-> None],
                     !.started = @ + 1,
                     !.overlap = @ \/ \E o \in ReplSessions : repl.sessions[o].pc # "idle"]
  /\ UNCHANGED varsReplicasFrame

\* Shard::start, the actor loop of one replica: the oldest request is
\* received, executed and answered
ReplActor(replica_id) ==
  /\ repl.used /\ repl.inbox[replica_id] # << >>
  /\ \E req \in { Head(repl.inbox[replica_id]) } :
     \E r \in { ReplicaExecute(router, 0, replica_id, req.stmt, None, 0) } :
       /\ router' = r.cl
       /\ repl' = [repl EXCEPT !.inbox[replica_id] = Tail(@),
                               !.sessions[req.session].resp = Some([ok |-> r.ok]),
                               !.executed[replica_id] = Append(@, req.session)]
  /\ UNCHANGED varsReplicasFrame

\* execute_plan after an answer arrived: the leader's error is returned;
\* else the statement goes to the next healthy follower; after the last
\* one the acknowledgements are compared with the quorum and the call
\* returns
ReplResume(s) ==
  /\ repl.used /\ repl.sessions[s].pc = "wait" /\ repl.sessions[s].resp.some
  /\ \E me \in { repl.sessions[s] } :
     \E acked \in { IF me.at # me.leader /\ me.resp.v.ok THEN me.acked + 1 ELSE me.acked } :
     \E next \in { IF me.at = me.leader
                   THEN IF me.resp.v.ok THEN NextFollower(router, 0, me.leader, 0)
                        ELSE router.replication_factor
                   ELSE NextFollower(router, 0, me.leader, me.at + 1) } :
       repl' = IF next < router.replication_factor
               THEN [ReplSend(repl, s, next) EXCEPT
                       !.sessions[s] = [me EXCEPT !.at = next, !.acked = acked,
                                                  !.resp = None]]
               ELSE [repl EXCEPT !.sessions[s] = ReplSessionIdle]
  /\ UNCHANGED << router, varsReplicasFrame >>

NextReplicas ==
  \/ \E s \in ReplSessions : ReplExecutePlan(s)
  \/ \E r \in DOMAIN repl.inbox : ReplActor(r)
  \/ \E s \in ReplSessions : ReplResume(s)

SpecReplicas == InitReplicas /\ [][NextReplicas]_vars

\* ---------------------------------------------------------------------
\* C37
\* ---------------------------------------------------------------------

\* every call has returned and no request is in an inbox
ReplQuiet ==
  /\ repl.used
  /\ \A s \in ReplSessions : repl.sessions[s].pc = "idle"
  /\ \A r \in DOMAIN repl.inbox : repl.inbox[r] = << >>

\* the rows of the table on a replica, in row-id order
ReplRows(replica_id) ==
  Bind(router.shards[<< 0, replica_id >>], LAMBDA sh :
    fetch_table_rows(sh, ReplTable, None, snapshot(sh.clock)))

\* every replica executed the writes in the leader's order and holds the
\* leader's rows under the leader's row ids
ReplicasAgree ==
  \A r \in DOMAIN repl.inbox :
    /\ repl.executed[r] = repl.executed[router.leaders[0]]
    /\ ReplRows(r) = ReplRows(router.leaders[0])

\* C37: with all replicas healthy and sessions writing at once to one
\* shard, once all writes are complete every replica has executed the
\* writes in the leader's order and holds the same rows under the same row
\* ids.
C37_ReplicaOrder == ReplQuiet => ReplicasAgree

\* what holds instead: the replicas agree when no call started while
\* another was in flight
C37_OneAtATime == (ReplQuiet /\ ~repl.overlap) => ReplicasAgree

\* ---------------------------------------------------------------------
\* C38
\* ---------------------------------------------------------------------

\* the message just handled is a Query "COMMIT" received in a transaction
CommitInTx ==
  /\ in_tx
  /\ QueryOf(lastMsg', << StmtCommit >>)
  /\ authorize_statement(user_ctx, StmtCommit) = ""

C38_Step ==
  CommitInTx =>
    /\ tx_buffer' = << >>
    /\ Failed(out') => router'.shards = router.shards

\* C38: a COMMIT during which a buffered mutation fails leaves none of the
\* buffered mutations applied on any shard replica; failed or not, the
\* transaction buffer is empty afterwards.
C38_CommitAllOrNothing == [][C38_Step]_vars

\* what holds instead: the buffer is empty after COMMIT, failed or not
C38_BufferEmptied == [][CommitInTx => tx_buffer' = << >>]_vars

\* ---------------------------------------------------------------------
\* C39
\* ---------------------------------------------------------------------

\* in_tx, failed_tx and tx_buffer as the Query arm of handle_client leaves
\* them for the text sql in the present session
AfterQuery(sql) ==
  Bind(handle_query(router, sql, None, user_ctx, in_tx, failed_tx, tx_buffer, now),
       LAMBDA r : [in_tx |-> IF r.ok THEN r.st.in_tx ELSE FALSE,
                   failed_tx |-> IF r.ok THEN r.st.failed_tx ELSE TRUE,
                   tx_buffer |-> r.st.tx_buffer])

\* the message just handled is an Execute of a portal that exists
ExecutesPortal ==
  /\ conn.used /\ conn.phase = "ready"
  /\ lastMsg'.type = "Execute"
  /\ Resolve(conn.portals, lastMsg'.portal_name).some

\* the text of that portal
ExecutedSql == render_sql(Resolve(conn.portals, lastMsg'.portal_name).v)

C39_Step == ExecutesPortal => Session' = AfterQuery(ExecutedSql)

\* C39: Execute of a portal without parameters leaves in_tx, failed_tx and
\* the transaction buffer as a simple Query with the same text would leave
\* them; an error during Execute makes the session Failed.
C39_ExecuteAsQuery == [][C39_Step]_vars

C39_OkStep ==
  (ExecutesPortal
     /\ handle_query(router, ExecutedSql, None, user_ctx, in_tx, failed_tx, tx_buffer, now).ok)
    => Session' = AfterQuery(ExecutedSql)

\* what holds instead: the two agree when the text runs without error
C39_OnSuccess == [][C39_OkStep]_vars

\* ---------------------------------------------------------------------
\* C40
\* ---------------------------------------------------------------------

\* handle_query on the first n statements of a Query text, in the present
\* session
PrefixRun(statements, n) ==
  handle_query(router, SqlOf(SubSeq(statements, 1, n)), None, user_ctx,
               in_tx, failed_tx, tx_buffer, now)

\* the position of the statement at which the text fails
FailingIndex(statements) ==
  CHOOSE k \in 1..Len(statements) :
    /\ ~PrefixRun(statements, k).ok
    /\ \A m \in 1..(k - 1) : PrefixRun(statements, m).ok

\* the message just handled is a Query of several statements of which one
\* failed
BatchFailed ==
  /\ lastMsg'.type = "Query"
  /\ lastMsg'.sql.parses
  /\ Len(lastMsg'.sql.statements) >= 2
  /\ Failed(out')

\* the replicas are as the statements 1..k left them: the earlier ones
\* were executed and keep their effect, the later ones were not executed
StoppedAt(statements, k) == router'.shards = PrefixRun(statements, k).st.cl.shards

C40_Step ==
  BatchFailed =>
    \E k \in { FailingIndex(lastMsg'.sql.statements) } :
      /\ Len(OfType(out', "ErrorResponse")) = 1
      /\ SubSeq(out', 1, Len(out') - 2)
           = write_query_response(PrefixRun(lastMsg'.sql.statements, k - 1).st.items, 0)
      /\ out'[Len(out') - 1].type = "ErrorResponse"
      /\ StoppedAt(lastMsg'.sql.statements, k)

\* C40: when the k-th statement of a Query of several statements fails,
\* the client receives the result messages of the statements 1..k-1, then
\* the single ErrorResponse; the statements 1..k-1 keep their effect and
\* the statements after k are not executed.
C40_BatchResults == [][C40_Step]_vars

C40_ErrorOnlyStep ==
  BatchFailed =>
    /\ Len(out') = 2
    /\ out'[1].type = "ErrorResponse"
    /\ out'[2] = MsgReadyForQuery("E")
    /\ StoppedAt(lastMsg'.sql.statements, FailingIndex(lastMsg'.sql.statements))

\* what holds instead: the client receives the ErrorResponse and
\* ReadyForQuery('E') only, while the effects are as the claim says
C40_ErrorOnly == [][C40_ErrorOnlyStep]_vars

====
